---- MODULE Spec2Model ----
(***************************************************************************)
(* SentinelForge: the checkpoint/undo log (automation/undo.py) and the     *)
(* custom rules engine (automation/custom_rules.py) as state machines.     *)
(*                                                                         *)
(* SpecUndo  : UndoSystem over a small file system and a clock.            *)
(* SpecRules : CustomRulesEngine over a small rule store and file batches. *)
(***************************************************************************)
EXTENDS Integers, Sequences, FiniteSets, TLC

(***************************************************************************)
(* Bounds of the model.                                                    *)
(***************************************************************************)
\* Checkpoints the history may hold.
MaxHist == 2
\* Checkpoints the history may hold when the file system may fail.
MaxFaultHist == 1
\* Conditions in one call of evaluate_conditions.
MaxConditions == 2
\* record_action calls in one session.
MaxActions == 3
\* Rules the rule store may hold.
MaxRules == 3
\* Largest match_count a rule may reach.
MaxCount == 1

\* Seconds in timedelta(days=1).
Day == 86400

\* Paths the callers use.  "a.txt" lies under the working directory;
\* "../b.txt" lies outside it, so os.path.relpath gives a path that starts
\* with "..".
InsideFiles == {"a.txt"}
OutsideFiles == {"../b.txt"}
Files == InsideFiles \cup OutsideFiles

\* File contents; 0 stands for "no such file".
Contents == {1, 2}
Absent == 0

\* The files_affected lists handed to create_checkpoint.
AffectedLists ==
  {<<>>, <<"a.txt">>, <<"../b.txt">>, <<"a.txt", "../b.txt">>}

\* The keep_days handed to cleanup_old_backups.
KeepDays == {0, 1}

\* The instants the clock shows: the start, a second later, a day later.
TimePoints == {0, 1, Day}

Range(s) == {s[i] : i \in 1..Len(s)}

\* An id no checkpoint ever has.
NoSuchId == 0 - 1

VARIABLES
  clock,         \* datetime.now(), in seconds
  fs,            \* the user's files: path -> content (0: absent)
  dirs,          \* checkpoint directories that exist under backup_dir
  bk,            \* files inside the checkpoint directories: dir -> path -> content
  spill,         \* files written through "<checkpoint_dir>/..": path -> content
  history,       \* UndoSystem.history
  history_file,  \* history.json
  rules,         \* CustomRulesEngine.rules
  rules_file,    \* sentinel_rules.json
  issued,        \* the ids given to rules so far
  applied,       \* <<what apply_rules returned>> if it was the last call, else <<>>
  loaded,        \* what load_rules found when the engine was constructed
  evaluation,    \* one call of evaluate_conditions: its arguments and <<its result>>
  memory,        \* SentinelLearning.memory
  memory_file,   \* sentinel_memory.json
  calls,         \* every record a record_action call has written, oldest first
  analysis,      \* one analysis: its file_info and <<what it returned>>
  pattern_scan,  \* one call of _detect_patterns: its file_info and <<what it returned>>
  detected,      \* one call of detect_file_series: its file_info and <<what it returned>>
  located,       \* AutomationTasks: where each file is now: its folder and name
  folders,       \* the category folders that exist in the source folder
  task,          \* <<the last bulk operation: its arguments and what it returned>>
  is_running,    \* SmartScheduler.is_running
  stop_event,    \* SmartScheduler.stop_event is set
  loops,         \* the monitor_loop threads started so far: where each one is
  workers,       \* SentinelGUI: the background threads that are running
  ui_queue,      \* the callbacks posted with root.after, oldest first
  widgets        \* the report widgets: their text and the thread that wrote it

undoVars == <<clock, fs, dirs, bk, spill, history, history_file>>
rulesVars == <<rules, rules_file, issued, applied, loaded>>
evalVars == <<evaluation>>
learnVars == <<memory, memory_file, calls>>
analyzerVars == <<analysis>>
detectorVars == <<pattern_scan, detected>>
taskVars == <<located, folders, task>>
schedulerVars == <<is_running, stop_event, loops>>
guiVars == <<workers, ui_queue, widgets>>
vars == <<clock, fs, dirs, bk, spill, history, history_file,
          rules, rules_file, issued, applied, loaded, evaluation,
          memory, memory_file, calls, analysis,
          pattern_scan, detected,
          located, folders, task,
          is_running, stop_event, loops,
          workers, ui_queue, widgets>>

\* What the calls of one component leave alone.
exceptUndo == <<rulesVars, evalVars, learnVars, analyzerVars, detectorVars, taskVars, schedulerVars, guiVars>>
exceptRules == <<undoVars, evalVars, learnVars, analyzerVars, detectorVars, taskVars, schedulerVars, guiVars>>
exceptEval == <<undoVars, rulesVars, learnVars, analyzerVars, detectorVars, taskVars, schedulerVars, guiVars>>
exceptLearn == <<undoVars, rulesVars, evalVars, analyzerVars, detectorVars, taskVars, schedulerVars, guiVars>>
exceptAnalyzer == <<undoVars, rulesVars, evalVars, learnVars, detectorVars, taskVars, schedulerVars, guiVars>>
exceptDetector == <<undoVars, rulesVars, evalVars, learnVars, analyzerVars, taskVars, schedulerVars, guiVars>>
exceptTasks == <<undoVars, rulesVars, evalVars, learnVars, analyzerVars, detectorVars, schedulerVars, guiVars>>
exceptScheduler == <<undoVars, rulesVars, evalVars, learnVars, analyzerVars, detectorVars, taskVars, guiVars>>
exceptGui == <<undoVars, rulesVars, evalVars, learnVars, analyzerVars, detectorVars, taskVars, schedulerVars>>

(***************************************************************************)
(* UndoSystem (automation/undo.py).                                        *)
(*                                                                         *)
(* A checkpoint is the dict of lines 80-90 with the keys the later calls   *)
(* add (completed, undone, restore_count, restore_errors, backup_removed); *)
(* a key that is absent in the code, and read with .get(key, False), is    *)
(* FALSE here (0 and <<>> for the two restore_* keys, which the code only  *)
(* writes).  The labels (operation, description, operation_details), the   *)
(* sizes and the *_at time stamps are read by no operation and are left    *)
(* out.  What a call returns is not state: it is the ret field of the      *)
(* call's outcome operator.  Each                                          *)
(* BackupEntry carries, besides its two paths, the content the file had    *)
(* when it was backed up: a history field the code does not have, which    *)
(* the round-trip property is stated with.                                 *)
(***************************************************************************)

\* The result dict undo_checkpoint and undo_last return.
Ret(success, error, checkpoint_id, files_restored, errors) ==
  [success |-> success, error |-> error, checkpoint_id |-> checkpoint_id,
   files_restored |-> files_restored, errors |-> errors]

\* checkpoint_<YYYYmmdd_HHMMSS> of the current second.
checkpoint_id_of(now) == now

\* os.path.join(self.backup_dir, checkpoint_id)
checkpoint_dir_of(checkpoint_id) == checkpoint_id

\* os.path.relpath(file_path) starts with "..": the joined backup path climbs
\* out of the checkpoint directory.
relpath_escapes(file_path) == file_path \in OutsideFiles

\* os.path.join(checkpoint_dir, os.path.relpath(file_path))
backup_path_of(checkpoint_dir, file_path) ==
  [dir |-> checkpoint_dir, rel |-> file_path]

\* What is stored at a backup path (Absent when nothing is).  A path through
\* "<checkpoint_dir>/.." resolves only while the checkpoint directory exists.
backup_content(backup_path, d, b, sp) ==
  IF backup_path.dir \notin d THEN Absent
  ELSE IF relpath_escapes(backup_path.rel) THEN sp[backup_path.rel]
  ELSE b[backup_path.dir][backup_path.rel]

\* os.path.exists(backup_path)
backup_exists(backup_path) == backup_content(backup_path, dirs, bk, spill) # Absent

\* The loop of create_checkpoint: every existing file is copied to its backup
\* path and recorded; a copy that raises (file_path in failing) is only logged.
RECURSIVE backup_files(_, _, _, _)
backup_files(files_affected, checkpoint_dir, failing, acc) ==
  IF files_affected = <<>> THEN acc
  ELSE
    LET file_path == Head(files_affected)
        backup_path == backup_path_of(checkpoint_dir, file_path)
        copied ==
          [bk |-> IF relpath_escapes(file_path) THEN acc.bk
                  ELSE [acc.bk EXCEPT ![checkpoint_dir][file_path] = fs[file_path]],
           spill |-> IF relpath_escapes(file_path)
                     THEN [acc.spill EXCEPT ![file_path] = fs[file_path]]
                     ELSE acc.spill,
           files |-> Append(acc.files,
                            [original_path |-> file_path,
                             backup_path |-> backup_path,
                             content |-> fs[file_path]])]
    IN backup_files(Tail(files_affected), checkpoint_dir, failing,
                    IF fs[file_path] # Absent /\ file_path \notin failing
                    THEN copied ELSE acc)

\* The checkpoint dict of lines 80-90.
new_checkpoint(checkpoint_id, now, backed_up_files, checkpoint_dir) ==
  [id |-> checkpoint_id, timestamp |-> now, files |-> backed_up_files,
   checkpoint_dir |-> checkpoint_dir, can_undo |-> TRUE,
   completed |-> FALSE, undone |-> FALSE, restore_count |-> 0,
   restore_errors |-> <<>>, backup_removed |-> FALSE]

create_checkpoint(files_affected, failing) ==
  /\ Len(history) < MaxHist
  /\ LET checkpoint_id == checkpoint_id_of(clock)
         checkpoint_dir == checkpoint_dir_of(checkpoint_id)
         done == backup_files(files_affected, checkpoint_dir, failing,
                              [bk |-> bk, spill |-> spill, files |-> <<>>])
         checkpoint == new_checkpoint(checkpoint_id, clock, done.files, checkpoint_dir)
     IN /\ dirs' = dirs \cup {checkpoint_dir}
        /\ bk' = done.bk
        /\ spill' = done.spill
        /\ history' = Append(history, checkpoint)
        /\ history_file' = history'
  /\ UNCHANGED <<clock, fs>>
  /\ UNCHANGED exceptUndo

\* The index of the first checkpoint of the history with this id, 0 if none.
find_checkpoint(checkpoint_id) ==
  IF \E i \in 1..Len(history) : history[i].id = checkpoint_id
  THEN CHOOSE i \in 1..Len(history) :
         /\ history[i].id = checkpoint_id
         /\ \A j \in 1..(i - 1) : history[j].id # checkpoint_id
  ELSE 0

record_operation(checkpoint_id) ==
  LET i == find_checkpoint(checkpoint_id)
  IN /\ history' = IF i = 0 THEN history
                   ELSE [history EXCEPT ![i].completed = TRUE]
     /\ history_file' = IF i = 0 THEN history_file ELSE history'
     /\ UNCHANGED <<clock, fs, dirs, bk, spill>>
     /\ UNCHANGED exceptUndo

\* A guard that never refuses: every call restores again.
already_undone_never(checkpoint) == FALSE

\* A guard that also turns away a checkpoint whose backups were removed.
undone_or_reclaimed(checkpoint) == checkpoint.undone \/ checkpoint.backup_removed

\* The guard of line 154.
already_undone(checkpoint) == checkpoint.undone

\* A restore loop that gives up at the first entry it cannot restore.
RECURSIVE restore_files_abort(_, _, _)
restore_files_abort(files, failing, acc) ==
  IF files = <<>> THEN acc
  ELSE
    LET file_info == Head(files)
        backup_path == file_info.backup_path
        original_path == file_info.original_path
    IN IF ~backup_exists(backup_path)
       THEN [acc EXCEPT !.errors =
               Append(@, [error |-> "Backup not found", path |-> original_path])]
       ELSE IF original_path \in failing
       THEN [acc EXCEPT !.errors =
               Append(@, [error |-> "Failed to restore", path |-> original_path])]
       ELSE restore_files_abort(Tail(files), failing,
              [acc EXCEPT
                 !.fs[original_path] = backup_content(backup_path, dirs, bk, spill),
                 !.restored_count = @ + 1])

\* The loop of undo_checkpoint over one checkpoint's files: acc is the file
\* system so far, the restored count and the errors.
RECURSIVE restore_files(_, _, _)
restore_files(files, failing, acc) ==
  IF files = <<>> THEN acc
  ELSE
    LET file_info == Head(files)
        backup_path == file_info.backup_path
        original_path == file_info.original_path
        step ==
          IF ~backup_exists(backup_path)
          THEN [acc EXCEPT !.errors =
                  Append(@, [error |-> "Backup not found", path |-> original_path])]
          ELSE IF original_path \in failing
          THEN [acc EXCEPT !.errors =
                  Append(@, [error |-> "Failed to restore", path |-> original_path])]
          ELSE [acc EXCEPT
                  !.fs[original_path] = backup_content(backup_path, dirs, bk, spill),
                  !.restored_count = @ + 1]
    IN restore_files(Tail(files), failing, step)

\* undo_checkpoint as a step from the current state: the new file system, the
\* new history and the value returned.
undo_outcome(checkpoint_id, failing) ==
  LET i == find_checkpoint(checkpoint_id)
  IN IF i = 0
     THEN [fs |-> fs, history |-> history, saved |-> FALSE,
           ret |-> Ret(FALSE, "Checkpoint not found", NoSuchId, 0, <<>>)]
     ELSE IF already_undone(history[i])
     THEN [fs |-> fs, history |-> history, saved |-> FALSE,
           ret |-> Ret(FALSE, "Already undone", NoSuchId, 0, <<>>)]
     ELSE
       LET done == restore_files(history[i].files, failing,
                                 [fs |-> fs, restored_count |-> 0, errors |-> <<>>])
       IN [fs |-> done.fs,
           history |-> [history EXCEPT ![i].undone = TRUE,
                                       ![i].restore_count = done.restored_count,
                                       ![i].restore_errors = done.errors],
           saved |-> TRUE,
           ret |-> Ret(TRUE, "", checkpoint_id, done.restored_count, done.errors)]

undo_checkpoint(checkpoint_id, failing) ==
  LET out == undo_outcome(checkpoint_id, failing)
  IN /\ fs' = out.fs
     /\ history' = out.history
     /\ history_file' = IF out.saved THEN out.history ELSE history_file
     /\ UNCHANGED <<clock, dirs, bk, spill>>
     /\ UNCHANGED exceptUndo

\* The checkpoint undo_last picks: the newest one that can be undone and is
\* not undone; 0 if there is none.
last_undoable ==
  LET C == {i \in 1..Len(history) : history[i].can_undo /\ ~history[i].undone}
  IN IF C = {} THEN 0 ELSE CHOOSE i \in C : \A j \in C : j <= i

\* get_undo_candidates: the ids of the checkpoints that can be undone and are
\* not undone, newest first.
get_undo_candidates ==
  LET newest_first == [k \in 1..Len(history) |-> history[Len(history) + 1 - k]]
      offered == SelectSeq(newest_first, LAMBDA c : c.can_undo /\ ~c.undone)
  IN [k \in 1..Len(offered) |-> offered[k].id]

\* undo_last as a step from the current state.
undo_last_outcome(failing) ==
  LET i == last_undoable
  IN IF i = 0
     THEN [fs |-> fs, history |-> history, saved |-> FALSE,
           ret |-> Ret(FALSE, "No operations to undo", NoSuchId, 0, <<>>)]
     ELSE undo_outcome(history[i].id, failing)

undo_last(failing) ==
  LET out == undo_last_outcome(failing)
  IN /\ fs' = out.fs
     /\ history' = out.history
     /\ history_file' = IF out.saved THEN out.history ELSE history_file
     /\ UNCHANGED <<clock, dirs, bk, spill>>
     /\ UNCHANGED exceptUndo

\* The loop of cleanup_old_backups from checkpoint i on.  shutil.rmtree of a
\* directory in rm_failing raises after having deleted the files in rm_lost,
\* and the directory stays.
RECURSIVE cleanup_loop(_, _, _, _, _)
cleanup_loop(i, cutoff, rm_failing, rm_lost, acc) ==
  IF i > Len(acc.history) THEN acc
  ELSE
    LET checkpoint == acc.history[i]
        checkpoint_dir == checkpoint.checkpoint_dir
        removed ==
          [dirs |-> acc.dirs \ {checkpoint_dir},
           bk |-> [acc.bk EXCEPT ![checkpoint_dir] = [f \in InsideFiles |-> Absent]],
           history |-> [acc.history EXCEPT ![i].backup_removed = TRUE],
           removed_count |-> acc.removed_count + 1,
           rm_failed |-> acc.rm_failed]
        failed ==
          [acc EXCEPT !.bk[checkpoint_dir] =
                        [f \in InsideFiles |-> IF f \in rm_lost THEN Absent ELSE @[f]],
                      !.rm_failed = TRUE]
    IN cleanup_loop(i + 1, cutoff, rm_failing, rm_lost,
                    IF checkpoint.timestamp < cutoff /\ checkpoint_dir \in acc.dirs
                    THEN (IF checkpoint_dir \in rm_failing THEN failed ELSE removed)
                    ELSE acc)

\* datetime.now() - timedelta(days=keep_days)
cutoff_of(now, keep_days) == now - keep_days * Day

\* cleanup_old_backups as a step from the current state; removed_count is
\* what it returns.
cleanup_outcome(keep_days, rm_failing, rm_lost) ==
  cleanup_loop(1, cutoff_of(clock, keep_days), rm_failing, rm_lost,
               [dirs |-> dirs, bk |-> bk, history |-> history,
                removed_count |-> 0, rm_failed |-> FALSE])

cleanup_old_backups(keep_days, rm_failing, rm_lost) ==
  LET done == cleanup_outcome(keep_days, rm_failing, rm_lost)
  IN /\ dirs' = done.dirs
     /\ bk' = done.bk
     /\ history' = done.history
     /\ history_file' = IF done.removed_count > 0 THEN done.history ELSE history_file
     /\ UNCHANGED <<clock, fs, spill>>
     /\ UNCHANGED exceptUndo

(***************************************************************************)
(* The environment of the undo system: the user (or a mutating task)       *)
(* writes and deletes files, and time passes.                              *)
(***************************************************************************)
WriteFile(file_path, content) ==
  /\ fs[file_path] # content
  /\ fs' = [fs EXCEPT ![file_path] = content]
  /\ UNCHANGED <<clock, dirs, bk, spill, history, history_file>>
  /\ UNCHANGED exceptUndo

DeleteFile(file_path) ==
  /\ fs[file_path] # Absent
  /\ fs' = [fs EXCEPT ![file_path] = Absent]
  /\ UNCHANGED <<clock, dirs, bk, spill, history, history_file>>
  /\ UNCHANGED exceptUndo

Tick(seconds) ==
  /\ clock + seconds \in TimePoints
  /\ clock' = clock + seconds
  /\ UNCHANGED <<fs, dirs, bk, spill, history, history_file>>
  /\ UNCHANGED exceptUndo

\* The ids a caller passes: those of the history and one that is unknown.
KnownIds == {history[i].id : i \in 1..Len(history)} \cup {NoSuchId}

(***************************************************************************)
(* CustomRulesEngine (automation/custom_rules.py).                         *)
(*                                                                         *)
(* A rule is the dict of lines 86-95; its id "rule_<n>" is the number n.   *)
(* A key the code reads with .get(key, default) and that is absent is its  *)
(* default here (match_count 0, stop_on_match FALSE).  Strings that are    *)
(* searched or lowercased are sequences of characters.                     *)
(***************************************************************************)
UpperChars ==
  <<"A", "B", "C", "D", "E", "F", "G", "H", "I", "J", "K", "L", "M",
    "N", "O", "P", "Q", "R", "S", "T", "U", "V", "W", "X", "Y", "Z">>
LowerChars ==
  <<"a", "b", "c", "d", "e", "f", "g", "h", "i", "j", "k", "l", "m",
    "n", "o", "p", "q", "r", "s", "t", "u", "v", "w", "x", "y", "z">>

\* str.lower()
lower_char(c) ==
  IF \E i \in 1..Len(UpperChars) : UpperChars[i] = c
  THEN LowerChars[CHOOSE i \in 1..Len(UpperChars) : UpperChars[i] = c]
  ELSE c
str_lower(str) == [i \in 1..Len(str) |-> lower_char(str[i])]

\* value in text
str_in(value, text) ==
  \E k \in 0..(Len(text) - Len(value)) :
    \A i \in 1..Len(value) : text[k + i] = value[i]

\* The rules of _get_default_rules.
DefaultRules ==
  <<[id |-> 1, name |-> "Screenshots to Screenshots folder", enabled |-> TRUE,
     conditions |-> <<[type |-> "filename_contains", value |-> <<"s", "c", "r", "e", "e", "n", "s", "h", "o", "t">>,
                       case_sensitive |-> FALSE]>>,
     actions |-> <<[type |-> "move", destination |-> "Screenshots"]>>,
     priority |-> 10, stop_on_match |-> FALSE, match_count |-> 0],
    [id |-> 2, name |-> "Old downloads cleanup", enabled |-> TRUE,
     conditions |-> <<[type |-> "folder_contains", value |-> <<"D", "o", "w", "n", "l", "o", "a", "d", "s">>],
                      [type |-> "age_days", operator |-> ">", value |-> 90]>>,
     actions |-> <<[type |-> "archive", destination |-> "Old Downloads"]>>,
     priority |-> 5, stop_on_match |-> FALSE, match_count |-> 0]>>

\* The files handed to apply_rules: a screenshot in Downloads, 100 days old,
\* and a temporary file without modified_time.
ShotFile ==
  [path |-> <<"D", "o", "w", "n", "l", "o", "a", "d", "s", "/", "S", "c", "r", "e", "e", "n", "s", "h", "o", "t", ".", "p", "n", "g">>,
   name |-> <<"S", "c", "r", "e", "e", "n", "s", "h", "o", "t", ".", "p", "n", "g">>,
   extension |-> ".png", size_mb |-> 1, has_modified_time |-> TRUE, age_days |-> 100]
TempFile ==
  [path |-> <<"n", "o", "t", "e", "s", ".", "t", "m", "p">>,
   name |-> <<"n", "o", "t", "e", "s", ".", "t", "m", "p">>,
   extension |-> ".tmp", size_mb |-> 5, has_modified_time |-> FALSE, age_days |-> 0]
Batches == {<<ShotFile, TempFile>>, <<TempFile>>}

\* The arguments handed to add_rule and update_rule.
ConditionChoices ==
  {<<>>,
   <<[type |-> "extension_is", value |-> ".tmp"]>>}
ActionChoices ==
  {<<[type |-> "move", destination |-> "Sorted"], [type |-> "tag", destination |-> "seen"]>>}
Priorities == {5, 10}
UpdateChoices == {[stop_on_match |-> TRUE]}

\* A lookup that never finds the key.
get_missing(dict, key, default) == default

\* dict.get(key, default)
get(dict, key, default) == IF key \in DOMAIN dict THEN dict[key] ELSE default

\* fnmatch(filename, pattern) where os.path.normcase leaves the case alone:
\* "*" stands for any run of characters, "?" for one character.
RECURSIVE fnmatch(_, _)
fnmatch(filename, pattern) ==
  IF pattern = <<>> THEN filename = <<>>
  ELSE IF Head(pattern) = "*"
  THEN \/ fnmatch(filename, Tail(pattern))
       \/ filename # <<>> /\ fnmatch(Tail(filename), pattern)
  ELSE IF filename = <<>> THEN FALSE
  ELSE IF Head(pattern) = "?" THEN fnmatch(Tail(filename), Tail(pattern))
  ELSE Head(pattern) = Head(filename) /\ fnmatch(Tail(filename), Tail(pattern))

\* re.search(pattern, filename) for patterns of literal characters and ".",
\* with an optional "^" in front and an optional "$" at the end.
re_search(pattern, filename) ==
  LET from_start == pattern # <<>> /\ Head(pattern) = "^"
      p1 == IF from_start THEN Tail(pattern) ELSE pattern
      to_end == p1 # <<>> /\ p1[Len(p1)] = "$"
      body == IF to_end THEN SubSeq(p1, 1, Len(p1) - 1) ELSE p1
  IN \E k \in 0..(Len(filename) - Len(body)) :
       /\ from_start => k = 0
       /\ to_end => k + Len(body) = Len(filename)
       /\ \A i \in 1..Len(body) : body[i] = "." \/ body[i] = filename[k + i]

\* One condition of evaluate_conditions: the if/elif chain of lines 118-174.
\* TRUE where the code goes on to the next condition, FALSE where it returns
\* False.
condition_holds(file_info, condition) ==
  IF condition.type = "filename_contains"
  THEN str_in(IF ~get(condition, "case_sensitive", FALSE)
              THEN str_lower(condition.value)
              ELSE condition.value,
              str_lower(file_info.name))
  ELSE IF condition.type = "filename_matches"
  THEN fnmatch(file_info.name, condition.value)
  ELSE IF condition.type = "extension_is"
  THEN file_info.extension = condition.value
  ELSE IF condition.type = "size_mb"
  THEN LET operator == get(condition, "operator", "=")
       IN IF operator = ">" THEN file_info.size_mb > condition.value
          ELSE IF operator = "<" THEN file_info.size_mb < condition.value
          ELSE IF operator = "=" THEN file_info.size_mb = condition.value
          ELSE TRUE
  ELSE IF condition.type = "age_days"
  THEN IF ~file_info.has_modified_time THEN FALSE
       ELSE LET operator == get(condition, "operator", ">")
            IN IF operator = ">" THEN file_info.age_days > condition.value
               ELSE IF operator = "<" THEN file_info.age_days < condition.value
               ELSE TRUE
  ELSE IF condition.type = "folder_contains"
  THEN str_in(condition.value, file_info.path)
  ELSE IF condition.type = "regex_match"
  THEN re_search(condition.value, file_info.name)
  ELSE TRUE

\* An evaluation that is content with one condition that holds.
RECURSIVE evaluate_any(_, _)
evaluate_any(file_info, conditions) ==
  IF conditions = <<>> THEN TRUE
  ELSE IF condition_holds(file_info, Head(conditions)) THEN TRUE
  ELSE Tail(conditions) # <<>> /\ evaluate_any(file_info, Tail(conditions))

\* evaluate_conditions: False at the first condition that fails.
RECURSIVE evaluate_conditions(_, _)
evaluate_conditions(file_info, conditions) ==
  IF conditions = <<>> THEN TRUE
  ELSE IF ~condition_holds(file_info, Head(conditions)) THEN FALSE
  ELSE evaluate_conditions(file_info, Tail(conditions))

\* rule_id = f"rule_{len(self.rules) + 1}"
next_rule_id(rs) == Len(rs) + 1

add_rule(name, conditions, actions, priority) ==
  /\ Len(rules) < MaxRules
  /\ LET rule_id == next_rule_id(rules)
         rule == [id |-> rule_id, name |-> name, enabled |-> TRUE,
                  conditions |-> conditions, actions |-> actions,
                  priority |-> priority, stop_on_match |-> FALSE, match_count |-> 0]
     IN /\ rules' = Append(rules, rule)
        /\ rules_file' = rules'
        /\ issued' = issued \cup {rule_id}
        /\ applied' = <<>>
  /\ UNCHANGED <<loaded, exceptRules>>

\* The index of the first rule with this id, 0 if none.
find_rule(rule_id) ==
  IF \E i \in 1..Len(rules) : rules[i].id = rule_id
  THEN CHOOSE i \in 1..Len(rules) :
         /\ rules[i].id = rule_id
         /\ \A j \in 1..(i - 1) : rules[j].id # rule_id
  ELSE 0

\* rule.update(updates)
updated(rule, updates) ==
  [key \in DOMAIN rule |-> IF key \in DOMAIN updates THEN updates[key] ELSE rule[key]]

update_rule(rule_id, updates) ==
  LET i == find_rule(rule_id)
  IN /\ rules' = IF i = 0 THEN rules ELSE [rules EXCEPT ![i] = updated(@, updates)]
     /\ rules_file' = IF i = 0 THEN rules_file ELSE rules'
     /\ applied' = <<>>
     /\ UNCHANGED issued
     /\ UNCHANGED <<loaded, exceptRules>>

\* [r for r in self.rules if r["id"] != rule_id]
RECURSIVE without_rule(_, _)
without_rule(rs, rule_id) ==
  IF rs = <<>> THEN <<>>
  ELSE IF Head(rs).id = rule_id THEN without_rule(Tail(rs), rule_id)
  ELSE <<Head(rs)>> \o without_rule(Tail(rs), rule_id)

delete_rule(rule_id) ==
  /\ rules' = without_rule(rules, rule_id)
  /\ rules_file' = rules'
  /\ applied' = <<>>
  /\ UNCHANGED issued
  /\ UNCHANGED <<loaded, exceptRules>>

toggle_rule(rule_id) ==
  LET i == find_rule(rule_id)
  IN /\ rules' = IF i = 0 THEN rules ELSE [rules EXCEPT ![i].enabled = ~@]
     /\ rules_file' = IF i = 0 THEN rules_file ELSE rules'
     /\ applied' = <<>>
     /\ UNCHANGED issued
     /\ UNCHANGED <<loaded, exceptRules>>

\* sorted(..., key=priority, reverse=True) that lets the later of two rules of
\* equal priority come first.
RECURSIVE sort_ties_reversed(_, _, _)
sort_ties_reversed(rs, i, out) ==
  IF i > Len(rs) THEN out
  ELSE IF ~rs[i].enabled THEN sort_ties_reversed(rs, i + 1, out)
  ELSE
    LET pos == Cardinality({k \in 1..Len(out) : rs[out[k]].priority > rs[i].priority})
    IN sort_ties_reversed(rs, i + 1,
         SubSeq(out, 1, pos) \o <<i>> \o SubSeq(out, pos + 1, Len(out)))
sorted_ties_reversed(rs) == sort_ties_reversed(rs, 1, <<>>)

\* The stable sort of lines 191-195, as the indices of the enabled rules:
\* each rule goes behind the rules whose priority is not lower than its own.
RECURSIVE sort_by_priority(_, _, _)
sort_by_priority(rs, i, out) ==
  IF i > Len(rs) THEN out
  ELSE IF ~rs[i].enabled THEN sort_by_priority(rs, i + 1, out)
  ELSE
    LET pos == Cardinality({k \in 1..Len(out) : rs[out[k]].priority >= rs[i].priority})
    IN sort_by_priority(rs, i + 1,
         SubSeq(out, 1, pos) \o <<i>> \o SubSeq(out, pos + 1, Len(out)))

\* A sort that forgets the enabled filter of line 192: every rule is kept.
RECURSIVE sort_with_disabled(_, _, _)
sort_with_disabled(rs, i, out) ==
  IF i > Len(rs) THEN out
  ELSE
    LET pos == Cardinality({k \in 1..Len(out) : rs[out[k]].priority >= rs[i].priority})
    IN sort_with_disabled(rs, i + 1,
         SubSeq(out, 1, pos) \o <<i>> \o SubSeq(out, pos + 1, Len(out)))
sorted_with_disabled(rs) == sort_with_disabled(rs, 1, <<>>)

sorted_rules(rs) == sort_by_priority(rs, 1, <<>>)

\* A rule that never ends the evaluation of a file.
stops_never(rule) == FALSE

\* rule.get("stop_on_match", False), line 218
stops(rule) == rule.stop_on_match

\* The entries one triggering rule appends for a file (lines 210-215).
triggered_entries(rule) ==
  [a \in 1..Len(rule.actions) |->
     [rule_id |-> rule.id, rule_name |-> rule.name, action |-> rule.actions[a]]]

\* The inner loop of apply_rules for one file, from position k of the sorted
\* rules; acc holds the rules (with their match counts) and file_actions.
RECURSIVE apply_to_file(_, _, _, _)
apply_to_file(file_info, order, k, acc) ==
  IF k > Len(order) THEN acc
  ELSE
    LET r == order[k]
        rule == acc.rules[r]
        file_path == file_info.path
        before == IF file_path \in DOMAIN acc.file_actions
                  THEN acc.file_actions[file_path] ELSE <<>>
        matched ==
          [rules |-> [acc.rules EXCEPT ![r].match_count = @ + 1],
           file_actions |->
             [p \in DOMAIN acc.file_actions \cup {file_path} |->
                IF p = file_path THEN before \o triggered_entries(rule)
                ELSE acc.file_actions[p]]]
    IN IF evaluate_conditions(file_info, rule.conditions)
       THEN IF stops(rule) THEN matched
            ELSE apply_to_file(file_info, order, k + 1, matched)
       ELSE apply_to_file(file_info, order, k + 1, acc)

\* The outer loop of apply_rules over the files.
RECURSIVE apply_to_files(_, _, _)
apply_to_files(file_list, order, acc) ==
  IF file_list = <<>> THEN acc
  ELSE apply_to_files(Tail(file_list), order,
                      apply_to_file(Head(file_list), order, 1, acc))

\* apply_rules as a step from the current rules: the rules with their new
\* match counts and the file_actions returned.
apply_rules_outcome(file_list) ==
  apply_to_files(file_list, sorted_rules(rules),
                 [rules |-> rules, file_actions |-> <<>>])

apply_rules(file_list) ==
  LET out == apply_rules_outcome(file_list)
  IN /\ \A i \in 1..Len(out.rules) : out.rules[i].match_count <= MaxCount
     /\ rules' = out.rules
     /\ rules_file' = rules'
     /\ applied' = <<[file_list |-> file_list, file_actions |-> out.file_actions]>>
     /\ UNCHANGED issued
     /\ UNCHANGED <<loaded, exceptRules>>

\* What load_rules may find: the list the last save wrote, no file, or a file
\* json.load cannot read.
Found == {"stored", "missing", "unreadable"}

\* Lines 24-30: self.rules after the read.
read_rules(found) == IF found = "stored" THEN rules_file ELSE <<>>

\* A start that keeps whatever was read.
load_as_read(found) ==
  /\ rules' = read_rules(found)
  /\ rules_file' = rules'
  /\ loaded' = [found |-> found, stored |-> Len(read_rules(found))]
  /\ applied' = <<>>
  /\ UNCHANGED issued
  /\ UNCHANGED exceptRules

\* A new CustomRulesEngine on the same rule file (lines 16-34): load_rules
\* reads the file and, if that left no rules, installs the default rules and
\* saves them.
load_rules(found) ==
  /\ rules' = IF read_rules(found) = <<>> THEN DefaultRules ELSE read_rules(found)
  /\ rules_file' = IF read_rules(found) = <<>> THEN DefaultRules ELSE rules_file
  /\ loaded' = [found |-> found, stored |-> Len(read_rules(found))]
  /\ applied' = <<>>
  /\ UNCHANGED issued
  /\ UNCHANGED exceptRules

\* The ids a caller passes: those of the rules and one that is unknown.
KnownRuleIds == {rules[i].id : i \in 1..Len(rules)} \cup {0}

\* CustomRulesEngine.__init__ without a rule file: the default rules, saved.
InitRules ==
  /\ rules = DefaultRules
  /\ rules_file = DefaultRules
  /\ issued = {DefaultRules[i].id : i \in 1..Len(DefaultRules)}
  /\ applied = <<>>
  /\ loaded = [found |-> "missing", stored |-> 0]

NextRules ==
  \/ \E conditions \in ConditionChoices, actions \in ActionChoices, priority \in Priorities :
       add_rule("custom", conditions, actions, priority)
  \/ \E rule_id \in KnownRuleIds, updates \in UpdateChoices : update_rule(rule_id, updates)
  \/ \E rule_id \in KnownRuleIds : delete_rule(rule_id)
  \/ \E rule_id \in KnownRuleIds : toggle_rule(rule_id)
  \/ \E file_list \in Batches : apply_rules(file_list)

\* The rule store over several starts of the program.
NextStore ==
  \/ \E conditions \in ConditionChoices, actions \in ActionChoices, priority \in Priorities :
       add_rule("custom", conditions, actions, priority)
  \/ \E rule_id \in KnownRuleIds : delete_rule(rule_id)
  \/ \E rule_id \in KnownRuleIds : toggle_rule(rule_id)
  \/ \E found \in Found : load_rules(found)

(***************************************************************************)
(* Python float arithmetic (IEEE 754 binary64, round to nearest, ties to   *)
(* even) for the non-negative values of intelligence/learning.py.          *)
(*                                                                         *)
(* A natural number of any size is the sequence of its bits, lowest first, *)
(* without leading zeros (so 0 is <<>>).  A float is [m, e] with value     *)
(* m * 2^e, m odd or zero, m below 2^53.                                   *)
(***************************************************************************)
MantissaBits == 53
\* Limbs of a quotient worked out behind the binary point before it is rounded.
QuotientLimbs == 5
\* Bits of a limb in the sums and products of large numbers.
LimbBits == 13

RECURSIVE BFromInt(_)
BFromInt(n) == IF n = 0 THEN <<>> ELSE <<n % 2>> \o BFromInt(n \div 2)

RECURSIVE BToInt(_)
BToInt(b) == IF b = <<>> THEN 0 ELSE Head(b) + 2 * BToInt(Tail(b))

\* The bits up to the highest 1.
BNorm(b) ==
  IF \A i \in 1..Len(b) : b[i] = 0 THEN <<>>
  ELSE SubSeq(b, 1, CHOOSE i \in 1..Len(b) :
                      b[i] = 1 /\ \A j \in (i + 1)..Len(b) : b[j] = 0)

\* The same number in limbs of LimbBits bits, lowest first, and back.
ToLimbs(b) ==
  [j \in 1..((Len(b) + LimbBits - 1) \div LimbBits) |->
     BToInt(SubSeq(b, LimbBits * (j - 1) + 1,
                   IF LimbBits * j < Len(b) THEN LimbBits * j ELSE Len(b)))]
FromLimbs(limbs) ==
  BNorm([i \in 1..(LimbBits * Len(limbs)) |->
           (limbs[((i - 1) \div LimbBits) + 1] \div (2 ^ ((i - 1) % LimbBits))) % 2])

\* Limbs brought below 2^LimbBits, the excess carried upwards.
RECURSIVE Carried(_, _, _)
Carried(limbs, i, carry) ==
  IF i > Len(limbs)
  THEN IF carry = 0 THEN <<>>
       ELSE <<carry % (2 ^ LimbBits)>> \o Carried(limbs, i, carry \div (2 ^ LimbBits))
  ELSE <<(limbs[i] + carry) % (2 ^ LimbBits)>>
         \o Carried(limbs, i + 1, (limbs[i] + carry) \div (2 ^ LimbBits))

LimbAt(limbs, j) == IF j \in 1..Len(limbs) THEN limbs[j] ELSE 0

\* a + b
BAdd(a, b) ==
  LET x == ToLimbs(a)
      y == ToLimbs(b)
      n == IF Len(x) > Len(y) THEN Len(x) ELSE Len(y)
  IN FromLimbs(Carried([j \in 1..n |-> LimbAt(x, j) + LimbAt(y, j)], 1, 0))

\* a * 2^k
BShl(a, k) == IF a = <<>> THEN <<>> ELSE [i \in 1..k |-> 0] \o a

\* x[1] * y[k] + x[2] * y[k-1] + ... from position i on
RECURSIVE Convolved(_, _, _, _)
Convolved(x, y, k, i) ==
  IF i > Len(x) THEN 0
  ELSE x[i] * LimbAt(y, k + 1 - i) + Convolved(x, y, k, i + 1)

\* a * b (the sums of limb products stay below 2^31 for factors of up to
\* 2^(31 - 2 * LimbBits) limbs)
BMul(a, b) ==
  LET x == ToLimbs(a)
      y == ToLimbs(b)
  IN FromLimbs(Carried([k \in 1..(Len(x) + Len(y)) |-> Convolved(x, y, k, 1)], 1, 0))

BLess(a, b) ==
  \/ Len(a) < Len(b)
  \/ /\ Len(a) = Len(b)
     /\ \E i \in 1..Len(a) :
          /\ a[i] < b[i]
          /\ \A j \in (i + 1)..Len(a) : a[j] = b[j]

\* The float m * 2^e in its one representation.
FCanon(m, e) ==
  IF \A i \in 1..Len(m) : m[i] = 0 THEN [m |-> <<>>, e |-> 0]
  ELSE LET low == CHOOSE i \in 1..Len(m) :
                    m[i] = 1 /\ \A j \in 1..(i - 1) : m[j] = 0
       IN [m |-> SubSeq(m, low, Len(m)), e |-> e + low - 1]

\* The float nearest to the exact value m * 2^e, ties to even.
fl(m, e) ==
  IF Len(m) <= MantissaBits THEN FCanon(m, e)
  ELSE LET drop == Len(m) - MantissaBits
           kept == SubSeq(m, drop + 1, Len(m))
           sticky == \E i \in 1..(drop - 1) : m[i] = 1
           up == m[drop] = 1 /\ (sticky \/ kept[1] = 1)
       IN FCanon(IF up THEN BAdd(kept, <<1>>) ELSE kept, e + drop)

\* float(n)
FromInt(n) == FCanon(BFromInt(n), 0)

\* x * y
FMul(x, y) == fl(BMul(x.m, y.m), x.e + y.e)

\* x + y
FAdd(x, y) ==
  LET e == IF x.e < y.e THEN x.e ELSE y.e
  IN fl(BAdd(BShl(x.m, x.e - e), BShl(y.m, y.e - e)), e)

\* x < y
FLess(x, y) ==
  LET e == IF x.e < y.e THEN x.e ELSE y.e
  IN BLess(BShl(x.m, x.e - e), BShl(y.m, y.e - e))

\* The first n limbs behind the binary point of r / b (r < b), highest first,
\* followed by a 1 if anything is left and a 0 if not.
RECURSIVE FractionLimbs(_, _, _)
FractionLimbs(r, b, n) ==
  IF n = 0 THEN <<IF r = 0 THEN 0 ELSE 1>>
  ELSE <<(r * 2 ^ LimbBits) \div b>>
         \o FractionLimbs((r * 2 ^ LimbBits) % b, b, n - 1)

Reverse(seq) == [i \in 1..Len(seq) |-> seq[Len(seq) + 1 - i]]

\* a / b for ints a >= 0, b > 0 (true division: the float nearest the quotient;
\* a and b are below 2^10 here, so the limbs worked out hold more bits than the
\* mantissa and the products stay below 2^31).
FDivInt(a, b) ==
  LET limbs == FractionLimbs(a % b, b, QuotientLimbs)
      rest == limbs[QuotientLimbs + 1]
      quotient == FromLimbs(Reverse(SubSeq(limbs, 1, QuotientLimbs)) \o <<a \div b>>)
  IN fl(BNorm(<<rest>> \o quotient), 0 - (QuotientLimbs * LimbBits + 1))

\* int(x)
FInt(x) ==
  IF x.e >= 0 THEN BToInt(BShl(x.m, x.e))
  ELSE IF 0 - x.e >= Len(x.m) THEN 0
  ELSE BToInt(SubSeq(x.m, 1 - x.e, Len(x.m)))

(***************************************************************************)
(* SentinelLearning (intelligence/learning.py).                            *)
(*                                                                         *)
(* memory keeps the nesting of _initialize_memory, without the keys no     *)
(* method writes.  Action kinds and the keys of stats are sequences of     *)
(* characters; a timestamp is the number of the call.                      *)
(***************************************************************************)
Cleanup == <<"c", "l", "e", "a", "n", "u", "p">>
Organize == <<"o", "r", "g", "a", "n", "i", "z", "e">>
Archive == <<"a", "r", "c", "h", "i", "v", "e">>
Kinds == {Cleanup, Organize, Archive}

FilesCleaned == <<"f", "i", "l", "e", "s", "_", "c", "l", "e", "a", "n", "e", "d">>
FilesOrganized == <<"f", "i", "l", "e", "s", "_", "o", "r", "g", "a", "n", "i", "z", "e", "d">>
FilesArchived == <<"f", "i", "l", "e", "s", "_", "a", "r", "c", "h", "i", "v", "e", "d">>
SpaceFreedMb == <<"s", "p", "a", "c", "e", "_", "f", "r", "e", "e", "d", "_", "m", "b">>
TotalActions == <<"t", "o", "t", "a", "l", "_", "a", "c", "t", "i", "o", "n", "s">>

\* The details handed to record_action: a style, and counts with an age.
DetailsChoices ==
  <<[style |-> "by_type"],
    [files_count |-> 2, space_freed |-> 5, age_days |-> 60]>>

\* self.memory["user_actions"][-1000:]
LogCap == 1000
\* self.memory["user_actions"][-20:]
RecentWindow == 20

\* _initialize_memory
initial_memory ==
  [user_actions |-> <<>>,
   preferences |-> [favorite_actions |-> <<>>,
                    avoided_actions |-> <<>>,
                    organization_style |-> "by_type"],
   patterns |-> [cleanup_frequency |-> 0,
                 organization_frequency |-> 0,
                 archive_frequency |-> 0,
                 avg_cleanup_age_days |-> FromInt(30)],
   stats |-> [key \in {TotalActions, FilesCleaned, FilesOrganized, FilesArchived,
                       SpaceFreedMb} |-> 0]]

\* A memory file left by an earlier session of PriorCalls calls: organize
\* first, then PriorCleanups times cleanup, of which the last PriorRejected
\* were rejected.
PriorCalls == 999
PriorCleanups == 9
PriorRejected == 2
prior_record(i) ==
  [timestamp |-> i,
   type |-> IF i <= PriorCalls - PriorCleanups THEN Organize ELSE Cleanup,
   accepted |-> i <= PriorCalls - PriorRejected,
   details |-> DetailsChoices[1]]
prior_log == [i \in 1..PriorCalls |-> prior_record(i)]
prior_memory ==
  [user_actions |-> prior_log,
   preferences |->
     [favorite_actions |->
        [kind \in {Organize, Cleanup} |->
           IF kind = Organize THEN PriorCalls - PriorCleanups
           ELSE PriorCleanups - PriorRejected],
      avoided_actions |-> [kind \in {Cleanup} |-> PriorRejected],
      organization_style |-> "by_type"],
   patterns |-> [cleanup_frequency |-> PriorCleanups - PriorRejected,
                 organization_frequency |-> PriorCalls - PriorCleanups,
                 archive_frequency |-> 0,
                 avg_cleanup_age_days |-> FromInt(30)],
   stats |-> [key \in {TotalActions, FilesCleaned, FilesOrganized, FilesArchived,
                       SpaceFreedMb} |->
                IF key = TotalActions THEN PriorCalls ELSE 0]]

\* dict[key] = value
put(dict, key, value) ==
  [k \in DOMAIN dict \cup {key} |-> IF k = key THEN value ELSE dict[k]]

\* f"files_{action_type}d"
stat_key_of(action_type) == <<"f", "i", "l", "e", "s", "_">> \o action_type \o <<"d">>

\* A cut that keeps the oldest records.
keep_first(user_actions) ==
  IF Len(user_actions) > LogCap THEN SubSeq(user_actions, 1, LogCap)
  ELSE user_actions

\* Lines 120-122: only the last 1000 actions are kept.
keep_last(user_actions) ==
  IF Len(user_actions) > LogCap
  THEN SubSeq(user_actions, Len(user_actions) - LogCap + 1, Len(user_actions))
  ELSE user_actions

\* The record of lines 75-80.
action_record_of(action_type, details, accepted) ==
  [timestamp |-> Len(calls) + 1, type |-> action_type, accepted |-> accepted,
   details |-> details]

\* The memory after record_action (lines 82-122).
recorded_memory(action_type, details, accepted) ==
  LET preferences == memory.preferences
      patterns == memory.patterns
      stats == memory.stats
      stat_key == stat_key_of(action_type)
      counted == put(stats, TotalActions, stats[TotalActions] + 1)
      with_files ==
        IF "files_count" \in DOMAIN details /\ stat_key \in DOMAIN counted
        THEN put(counted, stat_key, counted[stat_key] + details.files_count)
        ELSE counted
      with_space ==
        IF "space_freed" \in DOMAIN details
        THEN put(with_files, SpaceFreedMb, with_files[SpaceFreedMb] + details.space_freed)
        ELSE with_files
  IN [user_actions |->
        keep_last(Append(memory.user_actions,
                         action_record_of(action_type, details, accepted))),
      preferences |->
        [favorite_actions |->
           IF accepted
           THEN put(preferences.favorite_actions, action_type,
                    get(preferences.favorite_actions, action_type, 0) + 1)
           ELSE preferences.favorite_actions,
         avoided_actions |->
           IF ~accepted
           THEN put(preferences.avoided_actions, action_type,
                    get(preferences.avoided_actions, action_type, 0) + 1)
           ELSE preferences.avoided_actions,
         organization_style |->
           IF accepted /\ action_type = Organize /\ "style" \in DOMAIN details
           THEN details.style
           ELSE preferences.organization_style],
      patterns |->
        [cleanup_frequency |->
           patterns.cleanup_frequency
             + (IF accepted /\ action_type = Cleanup THEN 1 ELSE 0),
         organization_frequency |->
           patterns.organization_frequency
             + (IF accepted /\ action_type = Organize THEN 1 ELSE 0),
         archive_frequency |->
           patterns.archive_frequency
             + (IF accepted /\ action_type = Archive THEN 1 ELSE 0),
         avg_cleanup_age_days |->
           IF accepted /\ action_type = Cleanup /\ "age_days" \in DOMAIN details
           THEN FMul(FAdd(patterns.avg_cleanup_age_days, FromInt(details.age_days)),
                     FDivInt(1, 2))
           ELSE patterns.avg_cleanup_age_days],
      stats |-> with_space]

\* The calls one session may make: MaxActions from the memory it started with.
session_open ==
  \/ Len(calls) < MaxActions
  \/ Len(calls) >= PriorCalls /\ Len(calls) < PriorCalls + MaxActions

record_action(action_type, details, accepted) ==
  /\ session_open
  /\ memory' = recorded_memory(action_type, details, accepted)
  /\ memory_file' = memory'
  /\ calls' = Append(calls, action_record_of(action_type, details, accepted))
  /\ UNCHANGED exceptLearn

\* An unscaled ratio in place of the percentage.
get_action_ratio(action_type) ==
  LET favorites == get(memory.preferences.favorite_actions, action_type, 0)
      avoided == get(memory.preferences.avoided_actions, action_type, 0)
  IN IF favorites + avoided = 0 THEN FromInt(50)
     ELSE FDivInt(favorites, favorites + avoided)

\* Lines 137-145.  min(100, max(0, confidence)) returns its float argument:
\* favorites / total is at most 1, so the product is neither below 0 nor
\* above 100.
get_action_confidence(action_type) ==
  LET favorites == get(memory.preferences.favorite_actions, action_type, 0)
      avoided == get(memory.preferences.avoided_actions, action_type, 0)
      total == favorites + avoided
      confidence == FMul(FDivInt(favorites, total), FromInt(100))
  IN IF total = 0 THEN FromInt(50)
     ELSE IF FLess(FromInt(100), confidence) THEN FromInt(100)
     ELSE confidence

\* confidence < 30
should_suggest_action(action_type) ==
  ~FLess(get_action_confidence(action_type), FromInt(30))

\* Suggestions as the analyzer hands them over, and a list in another order
\* with a suggestion that has no confidence.
Compress == <<"c", "o", "m", "p", "r", "e", "s", "s">>
SuggestionLists ==
  <<<<[action |-> Cleanup, confidence |-> 95], [action |-> Organize, confidence |-> 90],
      [action |-> Archive, confidence |-> 85], [action |-> Compress, confidence |-> 70]>>,
    <<[action |-> Archive, confidence |-> 75], [action |-> Organize],
      [action |-> Cleanup, confidence |-> 85], [action |-> Organize, confidence |-> 85]>>>>

\* Lines 166-181 for one suggestion that is kept.
personalized(suggestion) ==
  LET user_confidence == get_action_confidence(suggestion.action)
      base_confidence == get(suggestion, "confidence", 50)
      adjusted_confidence ==
        FAdd(FMul(FromInt(base_confidence), FDivInt(7, 10)),
             FMul(user_confidence, FDivInt(3, 10)))
  IN [action |-> suggestion.action, confidence |-> FInt(adjusted_confidence),
      learned |-> TRUE]

\* sorted(personalized, key=confidence, reverse=True): a stable sort.
RECURSIVE sorted_by_confidence(_, _, _)
sorted_by_confidence(list, i, out) ==
  IF i > Len(list) THEN out
  ELSE
    LET pos == Cardinality({k \in 1..Len(out) : out[k].confidence >= list[i].confidence})
    IN sorted_by_confidence(list, i + 1,
         SubSeq(out, 1, pos) \o <<list[i]>> \o SubSeq(out, pos + 1, Len(out)))

\* The loop of lines 165-183.
RECURSIVE personalized_from(_, _)
personalized_from(base_suggestions, i) ==
  IF i > Len(base_suggestions) THEN <<>>
  ELSE IF ~should_suggest_action(base_suggestions[i].action)
  THEN personalized_from(base_suggestions, i + 1)
  ELSE <<personalized(base_suggestions[i])>> \o personalized_from(base_suggestions, i + 1)

get_personalized_suggestions(base_suggestions) ==
  sorted_by_confidence(personalized_from(base_suggestions, 1), 1, <<>>)

\* No prediction: the None of lines 200 and 209.
NoAction == <<>>

\* self.memory["user_actions"][-20:]
recent_actions ==
  LET n == Len(memory.user_actions)
  IN SubSeq(memory.user_actions, IF n > RecentWindow THEN n - RecentWindow + 1 ELSE 1, n)

\* action_counts[kind] of lines 203-206, over any window
accepted_count(window, kind) ==
  Cardinality({i \in 1..Len(window) : window[i].accepted /\ window[i].type = kind})

\* Lines 196-218.  action_counts keeps its keys in the order they were first
\* counted, and max returns the first of the largest counts.
predict_next_action ==
  LET window == recent_actions
      counted == {window[i].type : i \in {j \in 1..Len(window) : window[j].accepted}}
      first_counted(kind) ==
        CHOOSE i \in 1..Len(window) :
          /\ window[i].accepted /\ window[i].type = kind
          /\ \A j \in 1..(i - 1) : ~(window[j].accepted /\ window[j].type = kind)
      predicted ==
        CHOOSE kind \in counted :
          \A other \in counted :
            \/ accepted_count(window, kind) > accepted_count(window, other)
            \/ /\ accepted_count(window, kind) = accepted_count(window, other)
               /\ first_counted(kind) <= first_counted(other)
  IN IF window = <<>> \/ counted = {}
     THEN [action |-> NoAction, confidence |-> 0]
     ELSE [action |-> predicted,
           confidence |->
             FInt(FMul(FDivInt(accepted_count(window, predicted), Len(window)),
                       FromInt(100)))]

\* SentinelLearning.__init__: load_memory finds no file, or the file an
\* earlier session left.
InitLearn ==
  \/ memory = initial_memory /\ memory_file = <<>> /\ calls = <<>>
  \/ memory = prior_memory /\ memory_file = <<prior_memory>> /\ calls = prior_log

(***************************************************************************)
(* AIFileAnalyzer (ai/analyzer.py).                                        *)
(*                                                                         *)
(* The analysis starts from file_info, the list _prepare_file_info makes   *)
(* of at most 50 files.  A suggestion keeps the action, the confidence and *)
(* the number of files, and the rank of its "Priority n" block; its        *)
(* description is left out.                                                *)
(***************************************************************************)
\* self.file_categories, in the order of the dict.
file_categories ==
  <<
    [name |-> "images",
     extensions |->
       {<<".", "j", "p", "g">>,
        <<".", "j", "p", "e", "g">>,
        <<".", "p", "n", "g">>,
        <<".", "g", "i", "f">>,
        <<".", "b", "m", "p">>,
        <<".", "s", "v", "g">>,
        <<".", "w", "e", "b", "p">>,
        <<".", "i", "c", "o">>,
        <<".", "t", "i", "f", "f">>,
        <<".", "h", "e", "i", "c">>},
     keywords |->
       <<<<"p", "h", "o", "t", "o">>,
        <<"i", "m", "a", "g", "e">>,
        <<"i", "m", "g">>,
        <<"p", "i", "c">>,
        <<"s", "c", "r", "e", "e", "n", "s", "h", "o", "t">>,
        <<"w", "a", "l", "l", "p", "a", "p", "e", "r">>,
        <<"a", "v", "a", "t", "a", "r">>,
        <<"i", "c", "o", "n">>>>,
     priority |-> "organize"],
    [name |-> "documents",
     extensions |->
       {<<".", "p", "d", "f">>,
        <<".", "d", "o", "c">>,
        <<".", "d", "o", "c", "x">>,
        <<".", "t", "x", "t">>,
        <<".", "r", "t", "f">>,
        <<".", "o", "d", "t">>,
        <<".", "p", "a", "g", "e", "s">>},
     keywords |->
       <<<<"r", "e", "p", "o", "r", "t">>,
        <<"d", "o", "c">>,
        <<"l", "e", "t", "t", "e", "r">>,
        <<"r", "e", "s", "u", "m", "e">>,
        <<"c", "v">>,
        <<"n", "o", "t", "e", "s">>,
        <<"i", "n", "v", "o", "i", "c", "e">>,
        <<"r", "e", "c", "e", "i", "p", "t">>>>,
     priority |-> "archive"],
    [name |-> "spreadsheets",
     extensions |->
       {<<".", "x", "l", "s">>,
        <<".", "x", "l", "s", "x">>,
        <<".", "c", "s", "v">>,
        <<".", "o", "d", "s">>,
        <<".", "n", "u", "m", "b", "e", "r", "s">>},
     keywords |->
       <<<<"d", "a", "t", "a">>,
        <<"s", "h", "e", "e", "t">>,
        <<"b", "u", "d", "g", "e", "t">>,
        <<"f", "i", "n", "a", "n", "c", "e">>,
        <<"e", "x", "p", "e", "n", "s", "e">>,
        <<"t", "r", "a", "c", "k", "i", "n", "g">>>>,
     priority |-> "archive"],
    [name |-> "presentations",
     extensions |->
       {<<".", "p", "p", "t">>,
        <<".", "p", "p", "t", "x">>,
        <<".", "k", "e", "y">>,
        <<".", "o", "d", "p">>},
     keywords |->
       <<<<"p", "r", "e", "s", "e", "n", "t", "a", "t", "i", "o", "n">>,
        <<"s", "l", "i", "d", "e", "s">>,
        <<"d", "e", "c", "k">>>>,
     priority |-> "archive"],
    [name |-> "videos",
     extensions |->
       {<<".", "m", "p", "4">>,
        <<".", "a", "v", "i">>,
        <<".", "m", "k", "v">>,
        <<".", "m", "o", "v">>,
        <<".", "w", "m", "v">>,
        <<".", "f", "l", "v">>,
        <<".", "w", "e", "b", "m">>,
        <<".", "m", "4", "v">>},
     keywords |->
       <<<<"v", "i", "d", "e", "o">>,
        <<"m", "o", "v", "i", "e">>,
        <<"c", "l", "i", "p">>,
        <<"r", "e", "c", "o", "r", "d", "i", "n", "g">>,
        <<"s", "c", "r", "e", "e", "n">>>>,
     priority |-> "organize"],
    [name |-> "audio",
     extensions |->
       {<<".", "m", "p", "3">>,
        <<".", "w", "a", "v">>,
        <<".", "f", "l", "a", "c">>,
        <<".", "a", "a", "c">>,
        <<".", "o", "g", "g">>,
        <<".", "m", "4", "a">>,
        <<".", "w", "m", "a">>},
     keywords |->
       <<<<"a", "u", "d", "i", "o">>,
        <<"m", "u", "s", "i", "c">>,
        <<"s", "o", "n", "g">>,
        <<"s", "o", "u", "n", "d">>,
        <<"p", "o", "d", "c", "a", "s", "t">>,
        <<"v", "o", "i", "c", "e">>>>,
     priority |-> "organize"],
    [name |-> "archives",
     extensions |->
       {<<".", "z", "i", "p">>,
        <<".", "r", "a", "r">>,
        <<".", "7", "z">>,
        <<".", "t", "a", "r">>,
        <<".", "g", "z">>,
        <<".", "b", "z", "2">>,
        <<".", "x", "z">>},
     keywords |->
       <<<<"a", "r", "c", "h", "i", "v", "e">>,
        <<"b", "a", "c", "k", "u", "p">>,
        <<"c", "o", "m", "p", "r", "e", "s", "s", "e", "d">>>>,
     priority |-> "archive"],
    [name |-> "code",
     extensions |->
       {<<".", "p", "y">>,
        <<".", "j", "s">>,
        <<".", "j", "s", "x">>,
        <<".", "t", "s">>,
        <<".", "t", "s", "x">>,
        <<".", "j", "a", "v", "a">>,
        <<".", "c", "p", "p">>,
        <<".", "c">>,
        <<".", "h">>,
        <<".", "c", "s">>,
        <<".", "g", "o">>,
        <<".", "r", "s">>,
        <<".", "p", "h", "p">>,
        <<".", "r", "b">>,
        <<".", "s", "w", "i", "f", "t">>},
     keywords |->
       <<<<"s", "r", "c">>,
        <<"s", "o", "u", "r", "c", "e">>,
        <<"c", "o", "d", "e">>,
        <<"s", "c", "r", "i", "p", "t">>,
        <<"m", "a", "i", "n">>,
        <<"t", "e", "s", "t">>>>,
     priority |-> "keep"],
    [name |-> "web",
     extensions |->
       {<<".", "h", "t", "m", "l">>,
        <<".", "h", "t", "m">>,
        <<".", "c", "s", "s">>,
        <<".", "s", "c", "s", "s">>,
        <<".", "s", "a", "s", "s">>,
        <<".", "l", "e", "s", "s">>},
     keywords |->
       <<<<"w", "e", "b">>,
        <<"s", "i", "t", "e">>,
        <<"p", "a", "g", "e">>,
        <<"i", "n", "d", "e", "x">>,
        <<"s", "t", "y", "l", "e">>>>,
     priority |-> "keep"],
    [name |-> "config",
     extensions |->
       {<<".", "j", "s", "o", "n">>,
        <<".", "y", "a", "m", "l">>,
        <<".", "y", "m", "l">>,
        <<".", "t", "o", "m", "l">>,
        <<".", "i", "n", "i">>,
        <<".", "c", "f", "g">>,
        <<".", "c", "o", "n", "f">>,
        <<".", "x", "m", "l">>},
     keywords |->
       <<<<"c", "o", "n", "f", "i", "g">>,
        <<"s", "e", "t", "t", "i", "n", "g", "s">>,
        <<"p", "a", "c", "k", "a", "g", "e">>,
        <<"m", "a", "n", "i", "f", "e", "s", "t">>>>,
     priority |-> "keep"],
    [name |-> "temporary",
     extensions |->
       {<<".", "t", "m", "p">>,
        <<".", "t", "e", "m", "p">>,
        <<".", "b", "a", "k">>,
        <<".", "o", "l", "d">>,
        <<".", "c", "a", "c", "h", "e">>,
        <<".", "l", "o", "g">>,
        <<".", "s", "w", "p">>,
        <<".", "s", "w", "o">>,
        <<"~">>},
     keywords |->
       <<<<"t", "e", "m", "p">>,
        <<"b", "a", "c", "k", "u", "p">>,
        <<"c", "o", "p", "y">>,
        <<"o", "l", "d">>,
        <<"c", "a", "c", "h", "e">>,
        <<"l", "o", "g">>>>,
     priority |-> "delete"],
    [name |-> "installers",
     extensions |->
       {<<".", "e", "x", "e">>,
        <<".", "m", "s", "i">>,
        <<".", "d", "m", "g">>,
        <<".", "p", "k", "g">>,
        <<".", "d", "e", "b">>,
        <<".", "r", "p", "m">>,
        <<".", "a", "p", "p", "i", "m", "a", "g", "e">>},
     keywords |->
       <<<<"s", "e", "t", "u", "p">>,
        <<"i", "n", "s", "t", "a", "l", "l">>,
        <<"i", "n", "s", "t", "a", "l", "l", "e", "r">>,
        <<"d", "o", "w", "n", "l", "o", "a", "d">>>>,
     priority |-> "cleanup"],
    [name |-> "databases",
     extensions |->
       {<<".", "d", "b">>,
        <<".", "s", "q", "l", "i", "t", "e">>,
        <<".", "s", "q", "l">>,
        <<".", "m", "d", "b">>,
        <<".", "a", "c", "c", "d", "b">>},
     keywords |->
       <<<<"d", "a", "t", "a", "b", "a", "s", "e">>,
        <<"d", "a", "t", "a">>,
        <<"b", "a", "c", "k", "u", "p">>>>,
     priority |-> "keep"]
  >>

\* A score made of the keyword match alone.
keyword_score(file, cat_data) ==
  IF \E k \in 1..Len(cat_data.keywords) :
         str_in(cat_data.keywords[k], str_lower(file.name))
  THEN 20 ELSE 0

\* The score one category gives a file (lines 219-229): 50 for the
\* extension, 20 for the first keyword found in the name.
category_score(file, cat_data) ==
  (IF str_lower(file.extension) \in cat_data.extensions THEN 50 ELSE 0)
    + (IF \E k \in 1..Len(cat_data.keywords) :
            str_in(cat_data.keywords[k], str_lower(file.name))
       THEN 20 ELSE 0)

\* The loop of lines 216-233 from category c on: the category that holds the
\* largest score so far, a later one only with a strictly larger score.
RECURSIVE best_category(_, _, _, _)
best_category(file, c, category, max_score) ==
  IF c > Len(file_categories) THEN category
  ELSE IF category_score(file, file_categories[c]) > max_score
  THEN best_category(file, c + 1, file_categories[c].name,
                     category_score(file, file_categories[c]))
  ELSE best_category(file, c + 1, category, max_score)

category_of(file) == best_category(file, 1, "uncategorized", 0)

\* _categorize_files, as the category of each file of the list; the files of
\* a category are those that carry it, in list order.
categorize_files(file_info) ==
  [i \in 1..Len(file_info) |-> category_of(file_info[i])]

\* len(categorized[category])
count_of(categories, category) ==
  Cardinality({i \in 1..Len(categories) : categories[i] = category})

\* patterns['large_files'] of line 268, as the positions of the files
large_files(file_info) == {i \in 1..Len(file_info) : file_info[i].size_mb > 100}

\* The candidates in the order the blocks of lines 286-344 append them.
candidate_actions(file_info, categories) ==
  LET total_media == count_of(categories, "images") + count_of(categories, "videos")
                       + count_of(categories, "audio")
      total_cats == Cardinality({categories[i] : i \in 1..Len(categories)})
  IN (IF count_of(categories, "temporary") > 0
      THEN <<[action |-> Cleanup, confidence |-> 95, rank |-> 1,
              files |-> count_of(categories, "temporary")]>>
      ELSE <<>>)
     \o (IF count_of(categories, "installers") > 0
         THEN <<[action |-> Archive, confidence |-> 85, rank |-> 2,
                 files |-> count_of(categories, "installers")]>>
         ELSE <<>>)
     \o (IF total_media > 20
         THEN <<[action |-> Organize, confidence |-> 90, rank |-> 3,
                 files |-> total_media]>>
         ELSE <<>>)
     \o (IF large_files(file_info) # {}
         THEN <<[action |-> Compress, confidence |-> 70, rank |-> 4,
                 files |-> Cardinality(large_files(file_info))]>>
         ELSE <<>>)
     \o (IF count_of(categories, "documents") > 10
         THEN <<[action |-> Archive, confidence |-> 75, rank |-> 5,
                 files |-> count_of(categories, "documents")]>>
         ELSE <<>>)
     \o (IF total_cats > 5
         THEN <<[action |-> Organize, confidence |-> 85, rank |-> 6,
                 files |-> total_cats]>>
         ELSE <<>>)

\* A ranking with the lowest confidence first.
generate_ascending(file_info, categories) ==
  Reverse(sorted_by_confidence(candidate_actions(file_info, categories), 1, <<>>))

\* _generate_priority_actions: sorted by confidence, reverse=True.
generate_priority_actions(file_info, categories) ==
  sorted_by_confidence(candidate_actions(file_info, categories), 1, <<>>)

\* priority_actions[:5] of line 187
SurfacedActions == 5

\* What _sentinel_intelligence_analysis returns: the category of each file
\* and the suggestions.
analysis_of(file_info) ==
  LET categories == categorize_files(file_info)
      priority_actions == generate_priority_actions(file_info, categories)
  IN [categories |-> categories,
      suggestions |->
        IF file_info = <<>> THEN <<>>
        ELSE SubSeq(priority_actions, 1,
                    IF Len(priority_actions) < SurfacedActions
                    THEN Len(priority_actions) ELSE SurfacedActions)]

\* The kinds of file the lists are made of, and how many of each a list may
\* hold.
FileTemplates ==
  <<[name |-> <<"n", "o", "t", "e", "s", ".", "t", "m", "p">>,
     extension |-> <<".", "t", "m", "p">>, size_mb |-> 5],
    [name |-> <<"s", "e", "t", "u", "p", ".", "e", "x", "e">>,
     extension |-> <<".", "e", "x", "e">>, size_mb |-> 30],
    [name |-> <<"p", "h", "o", "t", "o", ".", "p", "n", "g">>,
     extension |-> <<".", "p", "n", "g">>, size_mb |-> 2],
    [name |-> <<"r", "e", "p", "o", "r", "t", ".", "p", "d", "f">>,
     extension |-> <<".", "p", "d", "f">>, size_mb |-> 1],
    [name |-> <<"m", "o", "v", "i", "e", ".", "m", "p", "4">>,
     extension |-> <<".", "m", "p", "4">>, size_mb |-> 200],
    [name |-> <<"m", "a", "i", "n", ".", "p", "y">>,
     extension |-> <<".", "p", "y">>, size_mb |-> 1],
    [name |-> <<"s", "e", "t", "t", "i", "n", "g", "s", ".", "j", "s", "o", "n">>,
     extension |-> <<".", "j", "s", "o", "n">>, size_mb |-> 1],
    [name |-> <<"t", "h", "i", "n", "g", ".", "x", "y", "z">>,
     extension |-> <<".", "x", "y", "z">>, size_mb |-> 1]>>
Multiplicities == <<{0, 10}, {0, 1}, {0, 1, 21}, {0, 11}, {0, 1}, {0, 1}, {0, 1}, {0, 1}>>

\* The list with counts[t] files of template t, for t = from..Len(FileTemplates).
RECURSIVE list_of(_, _)
list_of(counts, from) ==
  IF from > Len(FileTemplates) THEN <<>>
  ELSE [i \in 1..counts[from] |-> FileTemplates[from]] \o list_of(counts, from + 1)

\* Names and extensions for lists of a single file.
Stems ==
  {<<"p", "h", "o", "t", "o">>,
   <<"r", "e", "p", "o", "r", "t">>,
   <<"b", "u", "d", "g", "e", "t">>,
   <<"s", "l", "i", "d", "e", "s">>,
   <<"m", "o", "v", "i", "e">>,
   <<"m", "u", "s", "i", "c">>,
   <<"b", "a", "c", "k", "u", "p">>,
   <<"m", "a", "i", "n">>,
   <<"i", "n", "d", "e", "x">>,
   <<"c", "o", "n", "f", "i", "g">>,
   <<"t", "e", "m", "p">>,
   <<"s", "e", "t", "u", "p">>,
   <<"d", "a", "t", "a", "b", "a", "s", "e">>,
   <<"x">>}
Extensions ==
  {<<".", "t", "m", "p">>,
   <<".", "b", "a", "k">>,
   <<".", "o", "l", "d">>,
   <<".", "c", "a", "c", "h", "e">>,
   <<".", "T", "M", "P">>,
   <<".", "C", "a", "c", "h", "e">>,
   <<".", "p", "n", "g">>,
   <<".", "l", "o", "g">>,
   <<>>}

(***************************************************************************)
(* Pattern detection: AIFileAnalyzer._detect_patterns (ai/analyzer.py) and *)
(* RelationshipDetector.detect_file_series (intelligence/relationships.py).*)
(* A file is a dict with a name (a sequence of characters) and a size; a   *)
(* group of files is the sequence of their positions in file_info.         *)
(***************************************************************************)
Digits == <<"0", "1", "2", "3", "4", "5", "6", "7", "8", "9">>

\* \d and \s of the patterns
IsDigit(c) == \E d \in 1..Len(Digits) : Digits[d] = c
IsSpace(c) == c \in {" ", "\t"}

\* The length of the match of \d+ at position i of str (0: no match).
digit_run(str, i) ==
  Cardinality({j \in i..Len(str) : \A k \in i..j : IsDigit(str[k])})

\* str[i:].startswith(literal)
starts_with(str, i, literal) ==
  /\ i + Len(literal) - 1 <= Len(str)
  /\ \A k \in 1..Len(literal) : str[i + k - 1] = literal[k]

\* The length of the match of \d+|_copy|_\(\d+\)|\s-\scopy at position i
\* (0: no match); the alternatives are tried in this order.
suffix_match(str, i) ==
  IF digit_run(str, i) > 0 THEN digit_run(str, i)
  ELSE IF starts_with(str, i, <<"_", "c", "o", "p", "y">>) THEN 5
  ELSE IF /\ starts_with(str, i, <<"_", "(">>)
          /\ digit_run(str, i + 2) > 0
          /\ starts_with(str, i + 2 + digit_run(str, i + 2), <<")">>)
       THEN digit_run(str, i + 2) + 3
  ELSE IF /\ i + 2 <= Len(str)
          /\ IsSpace(str[i]) /\ str[i + 1] = "-" /\ IsSpace(str[i + 2])
          /\ starts_with(str, i + 3, <<"c", "o", "p", "y">>)
       THEN 7
  ELSE 0

\* re.sub(r'\d+|_copy|_\(\d+\)|\s-\scopy', '', name) from position i on
RECURSIVE base_name_from(_, _)
base_name_from(name, i) ==
  IF i > Len(name) THEN <<>>
  ELSE IF suffix_match(name, i) > 0 THEN base_name_from(name, i + suffix_match(name, i))
  ELSE <<name[i]>> \o base_name_from(name, i + 1)
base_name_of(name) == base_name_from(name, 1)

\* re.sub(r'\d+', '#', name) from position i on
RECURSIVE placeholder_from(_, _)
placeholder_from(name, i) ==
  IF i > Len(name) THEN <<>>
  ELSE IF digit_run(name, i) > 0
       THEN <<"#">> \o placeholder_from(name, i + digit_run(name, i))
  ELSE <<name[i]>> \o placeholder_from(name, i + 1)
base_pattern_of(name) == placeholder_from(name, 1)

\* The keys of a defaultdict in insertion order, as the position where each
\* first appears, and the positions appended under the key of position i.
first_positions(keys) ==
  SelectSeq([i \in 1..Len(keys) |-> i],
            LAMBDA i : \A j \in 1..(i - 1) : keys[j] # keys[i])
members(keys, i) ==
  SelectSeq([j \in 1..Len(keys) |-> j], LAMBDA j : keys[j] = keys[i])

\* re.search(r'[a-z][A-Z]', name)
has_camel_case(name) ==
  \E i \in 1..(Len(name) - 1) :
    /\ \E k \in 1..Len(LowerChars) : LowerChars[k] = name[i]
    /\ \E k \in 1..Len(UpperChars) : UpperChars[k] = name[i + 1]

Min(S) == CHOOSE x \in S : \A y \in S : x <= y
Max(S) == CHOOSE x \in S : \A y \in S : x >= y

\* What _detect_patterns returns (old_files is never filled).
patterns_of(file_info) ==
  LET Count(P(_)) == Cardinality({i \in 1..Len(file_info) : P(file_info[i].name)})
      names == [i \in 1..Len(file_info) |-> str_lower(file_info[i].name)]
      base_names == [i \in 1..Len(names) |-> base_name_of(names[i])]
      repeated == SelectSeq(first_positions(base_names),
                            LAMBDA i : Len(members(base_names, i)) > 1)
      has_camel == Count(has_camel_case)
      has_snake == Count(LAMBDA name : str_in(<<"_">>, name))
      has_kebab == Count(LAMBDA name : str_in(<<"-">>, name))
      series_pattern == [i \in 1..Len(file_info) |-> base_pattern_of(file_info[i].name)]
      long == SelectSeq(first_positions(series_pattern),
                        LAMBDA i : Len(members(series_pattern, i)) > 3)
  IN [duplicates |-> [k \in 1..Len(repeated) |-> base_names[repeated[k]]],
      naming_chaos |->
        IF /\ Min({has_camel, has_snake, has_kebab}) > 0
           /\ Max({has_camel, has_snake, has_kebab}) > 5
        THEN Len(file_info) ELSE 0,
      old_files |-> <<>>,
      large_files |-> SelectSeq([i \in 1..Len(file_info) |-> i],
                                LAMBDA i : i \in large_files(file_info)),
      series |-> [k \in 1..Len(long) |-> members(series_pattern, long[k])]]

\* _detect_patterns is called, once, and returns (it reads and writes no
\* state of the analyzer).
detect_patterns(file_info) ==
  /\ pattern_scan = <<>>
  /\ pattern_scan' = <<[file_info |-> file_info, returned |-> <<patterns_of(file_info)>>]>>
  /\ UNCHANGED detected
  /\ UNCHANGED exceptDetector

\* int(match.group()) of a run of digits
RECURSIVE int_of(_)
int_of(digits) ==
  IF digits = <<>> THEN 0
  ELSE 10 * int_of(SubSeq(digits, 1, Len(digits) - 1))
         + (CHOOSE d \in 0..9 : Digits[d + 1] = digits[Len(digits)])

\* str(n) for n >= 0
RECURSIVE str_of(_)
str_of(n) ==
  IF n < 10 THEN <<Digits[n + 1]>> ELSE str_of(n \div 10) \o <<Digits[(n % 10) + 1]>>

\* re.search(r'\d+', name): <<the number of the first run of digits>>, or <<>>
first_number(name) ==
  LET at == {i \in 1..Len(name) : IsDigit(name[i])}
  IN IF at = {} THEN <<>>
     ELSE <<int_of(SubSeq(name, Min(at), Min(at) + digit_run(name, Min(at)) - 1))>>

\* The numbers as they were appended.
unsorted(numbers) == numbers

\* numbers.sort()
RECURSIVE sorted_numbers(_)
sorted_numbers(numbers) ==
  IF numbers = <<>> THEN <<>>
  ELSE LET rest == sorted_numbers(Tail(numbers))
           pos == Cardinality({k \in 1..Len(rest) : rest[k] <= Head(numbers)})
       IN SubSeq(rest, 1, pos) \o <<Head(numbers)>> \o SubSeq(rest, pos + 1, Len(rest))

\* The numbers of the files of a group, in the order of the files.
RECURSIVE numbers_of(_, _, _)
numbers_of(names, files, k) ==
  IF k > Len(files) THEN <<>>
  ELSE first_number(names[files[k]]) \o numbers_of(names, files, k + 1)

Unknown == <<"u", "n", "k", "n", "o", "w", "n">>

\* The entry of lines 149-155 for the group of the file at position i.
series_entry(names, base_patterns, i) ==
  LET files == members(base_patterns, i)
      numbers == sorted_numbers(numbers_of(names, files, 1))
  IN [pattern |-> base_patterns[i],
      files |-> files,
      count |-> Len(files),
      is_sequential |-> \A k \in 1..(Len(numbers) - 1) : numbers[k + 1] - numbers[k] = 1,
      range |-> IF numbers # <<>>
                THEN str_of(Min(Range(numbers))) \o <<"-">> \o str_of(Max(Range(numbers)))
                ELSE Unknown]

\* What detect_file_series returns.
series_of(file_info) ==
  LET names == [i \in 1..Len(file_info) |-> get(file_info[i], "name", <<>>)]
      base_patterns == [i \in 1..Len(names) |-> base_pattern_of(names[i])]
      kept == SelectSeq(first_positions(base_patterns),
                        LAMBDA i : /\ Len(members(base_patterns, i)) >= 3
                                   /\ str_in(<<"#">>, base_patterns[i]))
  IN [k \in 1..Len(kept) |-> series_entry(names, base_patterns, kept[k])]

\* detect_file_series is called, once, and returns (it reads and writes no
\* state of the detector).
detect_file_series(file_info) ==
  /\ detected = <<>>
  /\ detected' = <<[file_info |-> file_info, returned |-> <<series_of(file_info)>>]>>
  /\ UNCHANGED pattern_scan
  /\ UNCHANGED exceptDetector

\* The pieces the names of single files are made of: up to three of them.
NamePieces ==
  {<<"p", "h", "o", "t", "o">>,
   <<"1">>,
   <<"_", "c", "o", "p", "y">>,
   <<"_", "(", "1", ")">>,
   <<" ", "-", " ", "c", "o", "p", "y">>,
   <<"_", "c", "o">>,
   <<"p", "y">>,
   <<"_", "(">>,
   <<")">>}
PieceNames ==
  {a \o b \o c : a \in NamePieces \cup {<<>>}, b \in NamePieces \cup {<<>>},
                  c \in NamePieces}

\* Numbered files "<stem><number><suffix>" and the number runs they come in.
NumberRuns ==
  {<<<<"1">>, <<"2">>>>,
   <<<<"1">>, <<"2">>, <<"3">>>>,
   <<<<"1">>, <<"2">>, <<"3">>, <<"4">>>>,
   <<<<"1">>, <<"2">>, <<"3">>, <<"5">>>>,
   <<<<"3">>, <<"1">>, <<"2">>, <<"4">>>>,
   <<<<"0", "1">>, <<"1">>, <<"2">>>>,
   <<<<"9">>, <<"1", "0">>, <<"1", "1">>, <<"1", "2">>>>,
   <<<<"1">>, <<"2">>, <<"3">>, <<"4">>, <<"5">>>>}
Stem == <<"p", "h", "o", "t", "o", "_">>
Suffix == <<".", "j", "p", "g">>
numbered(stem, run) ==
  [i \in 1..Len(run) |-> [name |-> stem \o run[i] \o Suffix, size_mb |-> 1]]

\* The lists the detectors are called on: one file of any name, or a run of
\* numbered files, alone or after a file without a number (one of them with
\* a '#' of its own), or copies of a name with a '#' and no number.
DetectorLists ==
  {<<[name |-> name \o Suffix, size_mb |-> 1]>> : name \in PieceNames}
    \cup {numbered(stem, run) : stem \in {Stem, <<"v", "1", "_">>}, run \in NumberRuns}
    \cup {<<[name |-> Stem \o tail, size_mb |-> 1]>> \o numbered(Stem, run) :
            tail \in {Suffix, <<"#">> \o Suffix}, run \in NumberRuns}
    \cup {[i \in 1..n |-> [name |-> Stem \o <<"#">> \o Suffix, size_mb |-> 1]] :
            n \in {3, 4}}

(***************************************************************************)
(* AutomationTasks (automation/tasks.py): the bulk operations on a folder. *)
(* A file is known by its number in TaskFiles, which gives the folder and  *)
(* the name it starts with; located says where it is now.  The source      *)
(* folder is "", its subfolder "sub", the archive folder "archive" (not    *)
(* inside the source folder), and a removed file is in "gone".  An         *)
(* operation on a file of `failing` raises (os.remove, shutil.move), and   *)
(* os.stat or os.path.getsize raises on a file of `unreadable`.            *)
(***************************************************************************)
TaskFiles ==
  <<[dir |-> "", name |-> <<"a", ".", "t", "m", "p">>, age_days |-> 1, size_mb |-> 2],
    [dir |-> "", name |-> <<"b", ".", "j", "p", "g">>, age_days |-> 60, size_mb |-> 3],
    [dir |-> "", name |-> <<"c", ".", "p", "d", "f">>, age_days |-> 1, size_mb |-> 1],
    [dir |-> "sub", name |-> <<"b", ".", "j", "p", "g">>, age_days |-> 60, size_mb |-> 4]>>
FileIds == 1..Len(TaskFiles)

Gone == "gone"
ArchiveFolder == "archive"

\* config.get("archive_extensions", ...): the default list.
temp_extensions ==
  <<<<".", "t", "m", "p">>, <<".", "b", "a", "k">>, <<".", "o", "l", "d">>, <<".", "c", "a", "c", "h", "e">>>>

\* type_categories of organize_by_type, in the order of the dict.
type_categories ==
  <<[name |-> "Images",
     extensions |-> {<<".", "j", "p", "g">>, <<".", "j", "p", "e", "g">>, <<".", "p", "n", "g">>, <<".", "g", "i", "f">>, <<".", "b", "m", "p">>, <<".", "s", "v", "g">>, <<".", "w", "e", "b", "p">>}],
    [name |-> "Documents",
     extensions |-> {<<".", "p", "d", "f">>, <<".", "d", "o", "c">>, <<".", "d", "o", "c", "x">>, <<".", "t", "x", "t">>, <<".", "r", "t", "f">>, <<".", "o", "d", "t">>}],
    [name |-> "Videos",
     extensions |-> {<<".", "m", "p", "4">>, <<".", "a", "v", "i">>, <<".", "m", "k", "v">>, <<".", "m", "o", "v">>, <<".", "w", "m", "v">>, <<".", "f", "l", "v">>}],
    [name |-> "Audio",
     extensions |-> {<<".", "m", "p", "3">>, <<".", "w", "a", "v">>, <<".", "f", "l", "a", "c">>, <<".", "a", "a", "c">>, <<".", "o", "g", "g">>, <<".", "m", "4", "a">>}],
    [name |-> "Archives",
     extensions |-> {<<".", "z", "i", "p">>, <<".", "r", "a", "r">>, <<".", "7", "z">>, <<".", "t", "a", "r">>, <<".", "g", "z">>}],
    [name |-> "Code",
     extensions |-> {<<".", "p", "y">>, <<".", "j", "s">>, <<".", "h", "t", "m", "l">>, <<".", "c", "s", "s">>, <<".", "j", "a", "v", "a">>, <<".", "c", "p", "p">>, <<".", "c">>}],
    [name |-> "Spreadsheets",
     extensions |-> {<<".", "x", "l", "s">>, <<".", "x", "l", "s", "x">>, <<".", "c", "s", "v">>, <<".", "o", "d", "s">>}]>>

\* file.endswith(ext)
ends_with(str, ext) ==
  /\ Len(ext) <= Len(str)
  /\ SubSeq(str, Len(str) - Len(ext) + 1, Len(str)) = ext

\* os.path.splitext(name): <<root, ext>>; leading dots belong to the root.
splitext(name) ==
  LET dots == {i \in 2..Len(name) :
                 /\ name[i] = "."
                 /\ \E j \in 1..(i - 1) : name[j] # "."}
  IN IF dots = {} THEN <<name, <<>>>>
     ELSE <<SubSeq(name, 1, Max(dots) - 1), SubSeq(name, Max(dots), Len(name))>>

\* The category folder of a file name (lines 227-234).
category_folder(name) ==
  LET ext == str_lower(splitext(name)[2])
      hits == {c \in 1..Len(type_categories) : ext \in type_categories[c].extensions}
  IN IF hits = {} THEN "Other" ELSE type_categories[Min(hits)].name

\* The files under a folder now, and whether a name is taken there.
files_in(loc, dir) == {f \in FileIds : loc[f].dir = dir}
name_taken(loc, dir, name) == \E f \in FileIds : loc[f].dir = dir /\ loc[f].name = name

\* os.path.exists(path) for the path a file started at.
exists_at_origin(loc, f) ==
  loc[f].dir = TaskFiles[f].dir /\ loc[f].name = TaskFiles[f].name

\* str(e) of the exception an operation on file f raised, or the message of
\* line 156.
error_of(f, what) == [file |-> f, error |-> what]

\* os.walk(folder_path): the files of the source folder, then those of its
\* subfolders (the archive folder is not one of them).
walk(loc) ==
  SelectSeq([f \in FileIds |-> f], LAMBDA f : loc[f].dir = "")
    \o SelectSeq([f \in FileIds |-> f],
                 LAMBDA f : loc[f].dir \notin {"", ArchiveFolder, Gone})

\* The loop of lines 44-70 from the k-th file of the walk on.
RECURSIVE cleanup_from(_, _, _, _, _, _, _)
cleanup_from(listing, k, age_days, dry_run, failing, unreadable, acc) ==
  IF k > Len(listing) THEN acc
  ELSE
    LET f == listing[k]
        is_old == TaskFiles[f].age_days > age_days
        is_temp == \E e \in 1..Len(temp_extensions) :
                     ends_with(acc.loc[f].name, temp_extensions[e])
        entry == [path |-> f, size_mb |-> TaskFiles[f].size_mb,
                  age_days |-> TaskFiles[f].age_days,
                  reason |-> IF is_old THEN "old" ELSE "temp"]
        listed == [acc.results EXCEPT !.files_to_remove = Append(@, entry)]
        next ==
          IF f \in unreadable
          THEN [acc EXCEPT !.results.errors = Append(@, error_of(f, "stat"))]
          ELSE IF ~(is_old \/ is_temp) THEN acc
          ELSE IF dry_run THEN [acc EXCEPT !.results = listed]
          ELSE IF f \in failing
               THEN [acc EXCEPT !.results =
                       [listed EXCEPT !.errors = Append(@, error_of(f, "remove"))]]
          ELSE [acc EXCEPT !.loc[f].dir = Gone,
                           !.results =
                             [listed EXCEPT !.files_removed = @ + 1,
                                            !.space_freed_mb = @ + TaskFiles[f].size_mb]]
    IN cleanup_from(listing, k + 1, age_days, dry_run, failing, unreadable, next)

\* cleanup_temp_files(folder_path, age_days, dry_run) on the source folder
cleanup_temp_files(age_days, dry_run, failing, unreadable) ==
  LET out == cleanup_from(walk(located), 1, age_days, dry_run, failing, unreadable,
                          [loc |-> located,
                           results |-> [files_removed |-> 0, space_freed_mb |-> 0,
                                        files_to_remove |-> <<>>, errors |-> <<>>]])
  IN /\ located' = out.loc
     /\ task' = <<[op |-> "cleanup", dry_run |-> dry_run, failing |-> failing,
                   unreadable |-> unreadable, files |-> walk(located),
                   before |-> located, results |-> out.results]>>
     /\ UNCHANGED folders
     /\ UNCHANGED exceptTasks

\* The destination name of lines 164-172: the file name, or the first
\* "<name>_<counter><ext>" that is free in the archive folder.
dest_name(loc, filename) ==
  LET numbered_name(counter) ==
        splitext(filename)[1] \o <<"_">> \o str_of(counter) \o splitext(filename)[2]
  IN IF ~name_taken(loc, ArchiveFolder, filename) THEN filename
     ELSE numbered_name(Min({counter \in 1..(Len(TaskFiles) + 1) :
                               ~name_taken(loc, ArchiveFolder, numbered_name(counter))}))

\* The loop of lines 154-178 from the k-th path on.
RECURSIVE archive_from(_, _, _, _, _, _)
archive_from(files_to_archive, k, dry_run, failing, unreadable, acc) ==
  IF k > Len(files_to_archive) THEN acc
  ELSE
    LET f == files_to_archive[k]
        sized == [acc.results EXCEPT !.total_size_mb = @ + TaskFiles[f].size_mb]
        next ==
          IF ~exists_at_origin(acc.loc, f)
          THEN [acc EXCEPT !.results.errors = Append(@, error_of(f, "File not found"))]
          ELSE IF f \in unreadable
               THEN [acc EXCEPT !.results.errors = Append(@, error_of(f, "getsize"))]
          ELSE IF dry_run THEN [acc EXCEPT !.results = sized]
          ELSE IF f \in failing
               THEN [acc EXCEPT !.results =
                       [sized EXCEPT !.errors = Append(@, error_of(f, "move"))]]
          ELSE [acc EXCEPT !.loc[f] = [dir |-> ArchiveFolder,
                                       name |-> dest_name(acc.loc, TaskFiles[f].name)],
                           !.results = [sized EXCEPT !.files_archived = @ + 1]]
    IN archive_from(files_to_archive, k + 1, dry_run, failing, unreadable, next)

\* archive_files(files_to_archive, archive_folder, dry_run)
archive_files(files_to_archive, dry_run, failing, unreadable) ==
  LET out == archive_from(files_to_archive, 1, dry_run, failing, unreadable,
                          [loc |-> located,
                           results |-> [files_archived |-> 0, total_size_mb |-> 0,
                                        errors |-> <<>>]])
  IN /\ located' = out.loc
     /\ task' = <<[op |-> "archive", dry_run |-> dry_run, failing |-> failing,
                   unreadable |-> unreadable, files |-> files_to_archive,
                   before |-> located, results |-> out.results]>>
     /\ UNCHANGED folders
     /\ UNCHANGED exceptTasks

\* The loop of lines 221-247, inside the try of line 220, from the k-th entry
\* on: an exception leaves the loop for the handler of lines 249-251.
RECURSIVE organize_from(_, _, _, _, _)
organize_from(listing, k, dry_run, failing, acc) ==
  IF k > Len(listing) THEN acc
  ELSE
    LET f == listing[k]
        category == category_folder(acc.loc[f].name)
        made == IF dry_run \/ category \in acc.folders THEN acc
                ELSE [acc EXCEPT !.folders = @ \cup {category},
                                 !.results.folders_created = Append(@, category)]
    IN IF ~dry_run /\ f \in failing
       THEN [made EXCEPT !.results.errors = Append(@, error_of(f, "move"))]
       ELSE organize_from(listing, k + 1, dry_run, failing,
              [made EXCEPT !.loc[f].dir = IF dry_run THEN @ ELSE category,
                           !.results.files_organized = @ + 1])

\* os.listdir(source_folder), the entries that are files
listdir(loc) == SelectSeq([f \in FileIds |-> f], LAMBDA f : loc[f].dir = "")

\* organize_by_type(source_folder, dry_run)
organize_by_type(dry_run, failing) ==
  LET out == organize_from(listdir(located), 1, dry_run, failing,
                           [loc |-> located, folders |-> folders,
                            results |-> [files_organized |-> 0, folders_created |-> <<>>,
                                         errors |-> <<>>]])
  IN /\ located' = out.loc
     /\ folders' = out.folders
     /\ task' = <<[op |-> "organize", dry_run |-> dry_run, failing |-> failing,
                   unreadable |-> {}, files |-> listdir(located),
                   before |-> located, results |-> out.results]>>
     /\ UNCHANGED exceptTasks

\* The lists of paths archive_files is called with.
ArchiveLists == {<<1, 2, 3>>, <<2, 4>>, <<4, 2, 1>>}
CleanupAges == {30}

\* The files whose removal or move is refused, and those that cannot be read.
FailingSets == {{}, {1}, {2}, {1, 2}, {2, 4}}
UnreadableSets == {{}, {2}}

(***************************************************************************)
(* SmartScheduler.start_monitoring / stop_monitoring                       *)
(* (intelligence/scheduler.py).  The two methods are called by one thread; *)
(* every monitor_loop thread takes its steps between those calls, one      *)
(* statement at a time.  A loop is at                                      *)
(*   "while"  before the test of line 228,                                 *)
(*   "check"  before the call of check_due_tasks of line 230,              *)
(*   "for"    before the test of line 233 for the next due task,           *)
(*   "run"    inside run_task,                                             *)
(*   "wait"   inside stop_event.wait(300),                                 *)
(*   "done"   after the loop.                                              *)
(* due is the number of due tasks the loop has still to run, and           *)
(* stop_requested says that stop_monitoring has set the stop signal since  *)
(* the loop was started.                                                   *)
(***************************************************************************)
MaxLoops == 2
MaxDue == 2

Alive(l) == loops[l].pc # "done"

\* start_monitoring(executor_callback)
start_monitoring ==
  /\ Len(loops) < MaxLoops
  /\ ~is_running
  /\ is_running' = TRUE
  /\ stop_event' = FALSE
  /\ loops' = Append(loops, [pc |-> "while", due |-> 0, stop_requested |-> FALSE])
  /\ UNCHANGED exceptScheduler

\* start_monitoring(executor_callback) while is_running: returns at once
start_monitoring_again ==
  /\ is_running
  /\ UNCHANGED <<is_running, stop_event, loops>>
  /\ UNCHANGED exceptScheduler

\* stop_monitoring()
stop_monitoring ==
  /\ is_running
  /\ stop_event' = TRUE
  /\ is_running' = FALSE
  /\ loops' = [l \in 1..Len(loops) |->
                 IF Alive(l) THEN [loops[l] EXCEPT !.stop_requested = TRUE] ELSE loops[l]]
  /\ UNCHANGED exceptScheduler

\* stop_monitoring() while not is_running: returns at once
stop_monitoring_again ==
  /\ ~is_running
  /\ UNCHANGED <<is_running, stop_event, loops>>
  /\ UNCHANGED exceptScheduler

\* while not self.stop_event.is_set()
while_test(l) ==
  /\ loops[l].pc = "while"
  /\ loops' = [loops EXCEPT ![l].pc = IF stop_event THEN "done" ELSE "check"]
  /\ UNCHANGED <<is_running, stop_event>>
  /\ UNCHANGED exceptScheduler

\* due_tasks = self.check_due_tasks(): any number of tasks may be due
check_due_tasks(l, due) ==
  /\ loops[l].pc = "check"
  /\ loops' = [loops EXCEPT ![l].pc = "for", ![l].due = due]
  /\ UNCHANGED <<is_running, stop_event>>
  /\ UNCHANGED exceptScheduler

\* for task in due_tasks: if self.stop_event.is_set(): break
for_test(l) ==
  /\ loops[l].pc = "for"
  /\ loops' = [loops EXCEPT ![l].pc = IF loops[l].due = 0 \/ stop_event
                                      THEN "wait" ELSE "run"]
  /\ UNCHANGED <<is_running, stop_event>>
  /\ UNCHANGED exceptScheduler

\* self.run_task(task, executor_callback) returns
run_task(l) ==
  /\ loops[l].pc = "run"
  /\ loops' = [loops EXCEPT ![l].pc = "for", ![l].due = @ - 1]
  /\ UNCHANGED <<is_running, stop_event>>
  /\ UNCHANGED exceptScheduler

\* self.stop_event.wait(300) returns: the signal is set, or the time is up
wait_returns(l) ==
  /\ loops[l].pc = "wait"
  /\ loops' = [loops EXCEPT ![l].pc = "while", ![l].due = 0]
  /\ UNCHANGED <<is_running, stop_event>>
  /\ UNCHANGED exceptScheduler

(***************************************************************************)
(* SentinelGUI (gui/main_window.py): the handlers that start a background  *)
(* thread, the threads, and the callbacks they post to the Tk event loop   *)
(* with root.after.  A widget holds its text (what was last inserted) and  *)
(* the thread that wrote it: "ui" for the thread of the event loop,        *)
(* "worker" for a background thread.                                       *)
(***************************************************************************)
MaxWorkers == 2

\* Room for one more background thread.
may_spawn == Len(workers) + Len(ui_queue) < MaxWorkers

written_by(text, thread) == [text |-> text, thread |-> thread]
without_worker(w) == SubSeq(workers, 1, w - 1) \o SubSeq(workers, w + 1, Len(workers))

\* analyze_folder(): the button handler, with a folder selected
analyze_folder ==
  /\ may_spawn
  /\ widgets' = [widgets EXCEPT !.analysis_text = written_by("Analyzing", "ui")]
  /\ workers' = Append(workers, "analyze")
  /\ UNCHANGED ui_queue
  /\ UNCHANGED exceptGui

\* analyze(), the thread of analyze_folder: display_analysis is called in it
analyze(w, outcome) ==
  /\ workers[w] = "analyze"
  /\ widgets' = IF outcome # "None"
                THEN [widgets EXCEPT !.analysis_text = written_by(outcome, "worker")]
                ELSE widgets
  /\ workers' = without_worker(w)
  /\ UNCHANGED ui_queue
  /\ UNCHANGED exceptGui

\* execute_defrag(): the button handler, confirmed
execute_defrag ==
  /\ may_spawn
  /\ widgets' = [widgets EXCEPT !.automation_text = written_by("Reforging", "ui")]
  /\ workers' = Append(workers, "defrag")
  /\ UNCHANGED ui_queue
  /\ UNCHANGED exceptGui

\* defrag(), the thread of execute_defrag: posts show_defrag_results
defrag(w, results) ==
  /\ workers[w] = "defrag"
  /\ ui_queue' = Append(ui_queue, [callback |-> "show_defrag_results", results |-> results])
  /\ workers' = without_worker(w)
  /\ UNCHANGED widgets
  /\ UNCHANGED exceptGui

\* get_ai_suggestions(): the button handler, with a folder selected
get_ai_suggestions ==
  /\ may_spawn
  /\ widgets' = [widgets EXCEPT !.automation_text = written_by("Consulting", "ui")]
  /\ workers' = Append(workers, "get_suggestions")
  /\ UNCHANGED ui_queue
  /\ UNCHANGED exceptGui

\* get_suggestions(), the thread of get_ai_suggestions: posts
\* show_ai_suggestions
get_suggestions(w, results) ==
  /\ workers[w] = "get_suggestions"
  /\ ui_queue' = Append(ui_queue, [callback |-> "show_ai_suggestions", results |-> results])
  /\ workers' = without_worker(w)
  /\ UNCHANGED widgets
  /\ UNCHANGED exceptGui

\* The event loop runs the oldest posted callback: show_defrag_results or
\* show_ai_suggestions.
run_callback ==
  /\ ui_queue # <<>>
  /\ widgets' = [widgets EXCEPT !.automation_text = written_by(Head(ui_queue).results, "ui")]
  /\ ui_queue' = Tail(ui_queue)
  /\ UNCHANGED workers
  /\ UNCHANGED exceptGui

\* The detectors before any call, the folder before any operation, the
\* scheduler and the window as constructed.
InitServices ==
  /\ pattern_scan = <<>>
  /\ detected = <<>>
  /\ located = [f \in FileIds |-> [dir |-> TaskFiles[f].dir, name |-> TaskFiles[f].name]]
  /\ folders = {}
  /\ task = <<>>
  /\ is_running = FALSE
  /\ stop_event = FALSE
  /\ loops = <<>>
  /\ workers = <<>>
  /\ ui_queue = <<>>
  /\ widgets = [analysis_text |-> [text |-> "", thread |-> "ui"],
                automation_text |-> [text |-> "", thread |-> "ui"]]

\* UndoSystem.__init__ on a fresh backup directory: no history.json, so the
\* history is empty; every file of the user exists.
InitUndo ==
  /\ clock = 0
  /\ fs = [f \in Files |-> 1]
  /\ dirs = {}
  /\ bk = [d \in TimePoints |-> [f \in InsideFiles |-> Absent]]
  /\ spill = [f \in OutsideFiles |-> Absent]
  /\ history = <<>>
  /\ history_file = <<>>

(***************************************************************************)
(* SpecUndo: every operation of the undo system on a file system whose     *)
(* copies and removals succeed.                                            *)
(***************************************************************************)
NextUndo ==
  \/ \E files_affected \in AffectedLists : create_checkpoint(files_affected, {})
  \/ \E checkpoint_id \in KnownIds : record_operation(checkpoint_id)
  \/ \E checkpoint_id \in KnownIds : undo_checkpoint(checkpoint_id, {})
  \/ undo_last({})
  \/ \E keep_days \in KeepDays : cleanup_old_backups(keep_days, {}, {})
  \/ \E file_path \in Files, content \in Contents : WriteFile(file_path, content)
  \/ \E file_path \in Files : DeleteFile(file_path)
  \/ \E seconds \in {1, Day} : Tick(seconds)

\* The components as constructed, no call of evaluate_conditions under way.
Init ==
  /\ InitUndo
  /\ InitRules
  /\ evaluation = <<>>
  /\ memory = initial_memory /\ memory_file = <<>> /\ calls = <<>>
  /\ analysis = <<>>
  /\ InitServices

SpecUndo == Init /\ [][NextUndo]_vars

(***************************************************************************)
(* SpecUndoFaults: the operations that touch files, on a file system that  *)
(* may refuse a copy (the paths in failing) or a removal (the directories  *)
(* in rm_failing), with at most MaxFaultHist checkpoints.                  *)
(***************************************************************************)
\* The paths whose restore can raise in undo_checkpoint(checkpoint_id): those
\* of the checkpoint it finds whose backup exists (the copy is attempted).
copy_attempted(checkpoint_id) ==
  LET i == find_checkpoint(checkpoint_id)
  IN IF i = 0 THEN {}
     ELSE {history[i].files[k].original_path : k \in
             {k \in 1..Len(history[i].files) :
                backup_exists(history[i].files[k].backup_path)}}

\* The directories cleanup_old_backups(keep_days) hands to shutil.rmtree.
rmtree_attempted(keep_days) ==
  {history[i].checkpoint_dir : i \in
     {i \in 1..Len(history) :
        /\ history[i].timestamp < cutoff_of(clock, keep_days)
        /\ history[i].checkpoint_dir \in dirs}}

NextUndoFaults ==
  \/ \E files_affected \in AffectedLists :
       \E failing \in SUBSET Range(files_affected) :
         Len(history) < MaxFaultHist /\ create_checkpoint(files_affected, failing)
  \/ \E checkpoint_id \in KnownIds :
       \E failing \in SUBSET copy_attempted(checkpoint_id) :
         undo_checkpoint(checkpoint_id, failing)
  \/ \E failing \in SUBSET (IF last_undoable = 0 THEN {}
                            ELSE copy_attempted(history[last_undoable].id)) :
       undo_last(failing)
  \/ \E keep_days \in KeepDays :
       \E rm_failing \in SUBSET rmtree_attempted(keep_days) :
         \E rm_lost \in (IF rm_failing = {} THEN {{}} ELSE SUBSET InsideFiles) :
           cleanup_old_backups(keep_days, rm_failing, rm_lost)
  \/ \E file_path \in Files, content \in Contents : WriteFile(file_path, content)
  \/ \E file_path \in Files : DeleteFile(file_path)
  \/ Tick(Day)

SpecUndoFaults == Init /\ [][NextUndoFaults]_vars

SpecRules == Init /\ [][NextRules]_vars

SpecStore == Init /\ [][NextStore]_vars

(***************************************************************************)
(* evaluate_conditions as a function of its arguments.                     *)
(***************************************************************************)
\* A report in capitals, next to the two files above.
ReportFile ==
  [path |-> <<"D", "o", "c", "u", "m", "e", "n", "t", "s", "/", "R", "E", "P", "O", "R", "T", ".", "T", "X", "T">>,
   name |-> <<"R", "E", "P", "O", "R", "T", ".", "T", "X", "T">>,
   extension |-> ".TXT", size_mb |-> 3, has_modified_time |-> TRUE, age_days |-> 10]
EvalFiles == {ShotFile, TempFile, ReportFile}

\* Conditions of every kind of lines 118-174, with and without the keys that
\* have a default, and one of a kind the code does not know.
EvalConditions ==
  <<[type |-> "filename_contains", value |-> <<"S", "c", "r", "e", "e", "n">>, case_sensitive |-> TRUE],
   [type |-> "filename_contains", value |-> <<"n", "o", "t", "e", "s">>, case_sensitive |-> TRUE],
   [type |-> "filename_contains", value |-> <<"S", "C", "R", "E", "E", "N">>],
   [type |-> "filename_contains", value |-> <<"r", "e", "p", "o", "r", "t">>, case_sensitive |-> FALSE],
   [type |-> "filename_matches", value |-> <<"*", ".", "t", "m", "p">>],
   [type |-> "extension_is", value |-> ".png"],
   [type |-> "size_mb", operator |-> ">", value |-> 2],
   [type |-> "size_mb", value |-> 5],
   [type |-> "age_days", operator |-> "<", value |-> 50],
   [type |-> "age_days", value |-> 90],
   [type |-> "folder_contains", value |-> <<"D", "o", "w", "n", "l", "o", "a", "d", "s">>],
   [type |-> "regex_match", value |-> <<"^", "n", "o", "t", "e", "s">>],
   [type |-> "owner_is", value |-> <<"r", "o", "o", "t">>]>>

\* The lists of conditions, as lists of positions in EvalConditions.
ConditionLists == UNION {[1..n -> 1..Len(EvalConditions)] : n \in 0..MaxConditions}

\* The call is made with some file and some list of conditions.
InitEval ==
  /\ InitUndo
  /\ InitRules
  /\ memory = initial_memory /\ memory_file = <<>> /\ calls = <<>>
  /\ analysis = <<>>
  /\ InitServices
  /\ \E file_info \in EvalFiles, chosen \in ConditionLists :
       evaluation = <<[file_info |-> file_info,
                       conditions |-> [i \in DOMAIN chosen |-> EvalConditions[chosen[i]]],
                       returned |-> <<>>]>>

\* The call returns.
evaluate ==
  /\ evaluation # <<>>
  /\ evaluation[1].returned = <<>>
  /\ evaluation' =
       <<[evaluation[1] EXCEPT
            !.returned = <<evaluate_conditions(evaluation[1].file_info,
                                               evaluation[1].conditions)>>]>>
  /\ UNCHANGED exceptEval

NextEval == evaluate

SpecEval == InitEval /\ [][NextEval]_vars

NextLearn ==
  \E action_type \in Kinds, d \in 1..Len(DetailsChoices), accepted \in BOOLEAN :
    record_action(action_type, DetailsChoices[d], accepted)

\* A session of the learning store, the other components as constructed.
InitSession ==
  InitUndo /\ InitRules /\ evaluation = <<>> /\ analysis = <<>> /\ InitLearn
    /\ InitServices

SpecLearn == InitSession /\ [][NextLearn]_vars

\* The analysis is made of some list of files.
InitAnalysis ==
  /\ InitUndo
  /\ InitRules
  /\ evaluation = <<>>
  /\ memory = initial_memory /\ memory_file = <<>> /\ calls = <<>>
  /\ InitServices
  /\ \/ \E c1 \in Multiplicities[1], c2 \in Multiplicities[2],
            c3 \in Multiplicities[3], c4 \in Multiplicities[4],
            c5 \in Multiplicities[5], c6 \in Multiplicities[6],
            c7 \in Multiplicities[7], c8 \in Multiplicities[8] :
          analysis = <<[file_info |-> list_of(<<c1, c2, c3, c4, c5, c6, c7, c8>>, 1),
                        returned |-> <<>>]>>
     \/ \E stem \in Stems, ext \in Extensions :
          analysis = <<[file_info |-> <<[name |-> stem \o ext, extension |-> ext,
                                        size_mb |-> 1]>>,
                       returned |-> <<>>]>>

\* _sentinel_intelligence_analysis returns.
analyze_files ==
  /\ analysis # <<>>
  /\ analysis[1].returned = <<>>
  /\ analysis' = <<[analysis[1] EXCEPT !.returned = <<analysis_of(analysis[1].file_info)>>]>>
  /\ UNCHANGED exceptAnalyzer

NextAnalysis == analyze_files

SpecAnalysis == InitAnalysis /\ [][NextAnalysis]_vars

\* The analyzer's pattern detection on any of the lists.
NextPatterns == \E file_info \in DetectorLists : detect_patterns(file_info)

SpecPatterns == Init /\ [][NextPatterns]_vars

\* The relationship detector's series detection on any of the lists.
NextSeries == \E file_info \in DetectorLists : detect_file_series(file_info)

SpecSeries == Init /\ [][NextSeries]_vars

\* The bulk operations, on a file system that may refuse to read, remove or
\* move any of the files.
NextTasks ==
  \/ \E age_days \in CleanupAges, dry_run \in BOOLEAN,
        failing \in FailingSets, unreadable \in UnreadableSets :
       cleanup_temp_files(age_days, dry_run, failing, unreadable)
  \/ \E files_to_archive \in ArchiveLists, dry_run \in BOOLEAN,
        failing \in FailingSets, unreadable \in UnreadableSets :
       archive_files(files_to_archive, dry_run, failing, unreadable)
  \/ \E dry_run \in BOOLEAN, failing \in FailingSets :
       organize_by_type(dry_run, failing)

SpecTasks == Init /\ [][NextTasks]_vars

\* The scheduler: the calls of the controlling thread and the steps of the
\* monitor loops, in any order.
NextScheduler ==
  \/ start_monitoring
  \/ start_monitoring_again
  \/ stop_monitoring
  \/ stop_monitoring_again
  \/ \E l \in 1..Len(loops) : while_test(l)
  \/ \E l \in 1..Len(loops), due \in 0..MaxDue : check_due_tasks(l, due)
  \/ \E l \in 1..Len(loops) : for_test(l)
  \/ \E l \in 1..Len(loops) : run_task(l)
  \/ \E l \in 1..Len(loops) : wait_returns(l)

SpecScheduler == Init /\ [][NextScheduler]_vars

\* The window: the handlers, the background threads and the event loop, in
\* any order.
NextGui ==
  \/ analyze_folder
  \/ \E w \in 1..Len(workers), outcome \in {"None", "ANALYSIS"} : analyze(w, outcome)
  \/ execute_defrag
  \/ \E w \in 1..Len(workers), results \in {"error", "THE BLADE IS REFORGED"} :
       defrag(w, results)
  \/ get_ai_suggestions
  \/ \E w \in 1..Len(workers), results \in {"error", "AI ANALYSIS"} :
       get_suggestions(w, results)
  \/ run_callback

SpecGui == Init /\ [][NextGui]_vars


(***************************************************************************)
(* Properties of the undo system.                                          *)
(***************************************************************************)
HistoryIds == {history[i].id : i \in 1..Len(history)}

\* C1: undo is single-shot.  In every state and for every id of the history,
\* undo_checkpoint(id) succeeds (and marks the checkpoint undone) while the
\* checkpoint it finds is not undone, and from then on returns the failure
\* "Already undone", writes no file and leaves the history and history.json
\* as they are; a checkpoint once undone stays undone.
C1_UndoSingleShot ==
  [][/\ \A id \in HistoryIds, failing \in SUBSET Files :
          LET i == find_checkpoint(id)
              out == undo_outcome(id, failing)
          IN IF history[i].undone
             THEN /\ out.ret.success = FALSE
                  /\ out.ret.error = "Already undone"
                  /\ out.fs = fs
                  /\ out.history = history
                  /\ out.saved = FALSE
             ELSE /\ out.ret.success = TRUE
                  /\ out.history[i].undone
     /\ \A i \in 1..Len(history) : history[i].undone => history'[i].undone
    ]_vars

\* A checkpoint has been undone and a file of it differs again from its
\* backup: a repeated undo would rewrite the file if it were not refused.
C1_Witness ==
  \E i \in 1..Len(history) :
    /\ history[i].undone
    /\ find_checkpoint(history[i].id) = i
    /\ \E k \in 1..Len(history[i].files) :
         LET e == history[i].files[k]
         IN /\ backup_exists(e.backup_path)
            /\ fs[e.original_path] # backup_content(e.backup_path, dirs, bk, spill)

\* C2: checkpoint round trip.  For every checkpoint that is not undone, while
\* no backup has been reclaimed, undo_checkpoint on its id puts every file of
\* the checkpoint back at its original path with the content it had when the
\* checkpoint was created.
C2_RoundTrip ==
  \A i \in 1..Len(history) :
    (~history[i].undone /\ \A j \in 1..Len(history) : ~history[j].backup_removed)
    => LET out == undo_outcome(history[i].id, {})
       IN \A k \in 1..Len(history[i].files) :
            out.fs[history[i].files[k].original_path] = history[i].files[k].content

\* C3: no two checkpoints of the history share an id, and no two share a
\* backup directory.
C3_UniqueIds ==
  \A i, j \in 1..Len(history) :
    i < j => /\ history[i].id # history[j].id
             /\ history[i].checkpoint_dir # history[j].checkpoint_dir

\* C4: undone is terminal.  No step changes the undone or the completed
\* status of a checkpoint that is undone (so a checkpoint is marked completed
\* only while it is not undone).
C4_Lifecycle ==
  [][\A i \in 1..Len(history) :
       history[i].undone => /\ history'[i].undone
                            /\ history'[i].completed = history[i].completed
    ]_vars

\* C5: undo_last undoes exactly the newest checkpoint that can be undone and
\* is not undone, marking that one and no other, and returns "No operations
\* to undo" exactly when there is no such checkpoint (and success otherwise).
C5_UndoLast ==
  [][/\ LET out == undo_last_outcome({})
        IN /\ (out.ret.error = "No operations to undo") <=> (last_undoable = 0)
           /\ last_undoable # 0 => out.ret.success
     /\ undo_last({}) =>
          IF last_undoable = 0
          THEN UNCHANGED <<fs, history>>
          ELSE /\ history'[last_undoable].undone
               /\ \A j \in 1..Len(history) :
                    j # last_undoable => history'[j] = history[j]
    ]_vars

\* C6: undo_checkpoint never aborts on a per-file failure.  For every
\* checkpoint that is not undone and every set of paths whose copy fails, the
\* call succeeds and marks the checkpoint undone, every entry whose backup
\* exists and whose copy does not fail is restored from its backup, every
\* other entry gives exactly one error, and files_restored plus the number of
\* errors is the number of entries; the counts stored with an undone
\* checkpoint add up likewise.
C6_NoAbortOnFailure ==
  /\ \A id \in HistoryIds, failing \in SUBSET Files :
       LET i == find_checkpoint(id)
           files == history[i].files
           out == undo_outcome(id, failing)
           ok == {k \in 1..Len(files) :
                    /\ backup_exists(files[k].backup_path)
                    /\ files[k].original_path \notin failing}
       IN ~history[i].undone =>
            /\ out.ret.success
            /\ out.history[i].undone
            /\ \A k \in ok :
                 out.fs[files[k].original_path] =
                   backup_content(files[k].backup_path, dirs, bk, spill)
            /\ out.ret.files_restored = Cardinality(ok)
            /\ Len(out.ret.errors) = Len(files) - Cardinality(ok)
            /\ \A k \in (1..Len(files)) \ ok :
                 Cardinality({n \in 1..Len(out.ret.errors) :
                                out.ret.errors[n].path = files[k].original_path}) = 1
            /\ out.ret.files_restored + Len(out.ret.errors) = Len(files)
  /\ \A i \in 1..Len(history) :
       history[i].undone =>
         history[i].restore_count + Len(history[i].restore_errors) = Len(history[i].files)

\* An undone checkpoint of two entries whose first entry failed and whose
\* second entry was restored all the same.
C6_Witness ==
  \E i \in 1..Len(history) :
    /\ history[i].undone
    /\ Len(history[i].files) = 2
    /\ history[i].restore_count = 1
    /\ Len(history[i].restore_errors) = 1
    /\ history[i].restore_errors[1].path = history[i].files[1].original_path
    /\ fs[history[i].files[2].original_path] = history[i].files[2].content

\* C7: cleanup_old_backups(keep_days) removes the backup directory of every
\* checkpoint older than the retention window, undone or not, and marks it
\* backup_removed; the backups of the checkpoints inside the window stay as
\* they are; and no later undo_checkpoint or undo_last restores a file from a
\* checkpoint marked backup_removed.
C7_Cleanup ==
  [][/\ \A keep_days \in KeepDays :
          cleanup_old_backups(keep_days, {}, {}) =>
            \A i \in 1..Len(history) :
              IF history[i].timestamp < cutoff_of(clock, keep_days)
              THEN /\ history'[i].backup_removed
                   /\ history[i].checkpoint_dir \notin dirs'
              ELSE \A k \in 1..Len(history[i].files) :
                     backup_content(history[i].files[k].backup_path, dirs', bk', spill')
                       = backup_content(history[i].files[k].backup_path, dirs, bk, spill)
     /\ \A id \in HistoryIds :
          (undo_checkpoint(id, {}) /\ history[find_checkpoint(id)].backup_removed)
            => fs' = fs
     /\ (/\ undo_last({})
         /\ last_undoable # 0
         /\ history[find_checkpoint(history[last_undoable].id)].backup_removed)
          => fs' = fs
    ]_vars

(***************************************************************************)
(* Properties of the rules engine.                                         *)
(***************************************************************************)
\* C8: no two rules in the store share an id, and the id the next add_rule
\* returns differs from every id given out before.
C8_UniqueMonotonicIds ==
  /\ \A i, j \in 1..Len(rules) : i # j => rules[i].id # rules[j].id
  /\ Len(rules) < MaxRules => next_rule_id(rules) \notin issued

\* The order the spec gives to two enabled rules: higher priority first, and
\* of two rules of equal priority the one earlier in the rule list.
Before(r1, r2) ==
  \/ rules[r1].priority > rules[r2].priority
  \/ rules[r1].priority = rules[r2].priority /\ r1 < r2

\* The enabled rules whose conditions a file satisfies.
Matching(file_info) ==
  {r \in 1..Len(rules) :
     rules[r].enabled /\ evaluate_conditions(file_info, rules[r].conditions)}

\* The rules that contribute for a file: the matching rules that no matching
\* stop_on_match rule precedes.
Triggered(file_info) ==
  {r \in Matching(file_info) :
     \A s \in Matching(file_info) : rules[s].stop_on_match => ~Before(s, r)}

RECURSIVE ActionCount(_)
ActionCount(rs) ==
  IF rs = {} THEN 0
  ELSE LET r == CHOOSE x \in rs : TRUE
       IN Len(rules[r].actions) + ActionCount(rs \ {r})

\* What the last apply_rules returned for a file.
Listed(file_info) ==
  IF file_info.path \in DOMAIN applied[1].file_actions
  THEN applied[1].file_actions[file_info.path]
  ELSE <<>>

\* C9: after apply_rules, for each file of the batch, the rules behind a
\* matching stop_on_match rule contribute nothing for that file, and every
\* other matching rule contributes all its actions, whatever happened to the
\* other files of the batch.
C9_StopOnMatch ==
  applied # <<>> =>
    \A f \in 1..Len(applied[1].file_list) :
      LET file_info == applied[1].file_list[f]
      IN /\ \A r \in Triggered(file_info) :
              \A a \in 1..Len(rules[r].actions) :
                \E e \in 1..Len(Listed(file_info)) :
                  Listed(file_info)[e] = triggered_entries(rules[r])[a]
         /\ Len(Listed(file_info)) = ActionCount(Triggered(file_info))
         /\ (file_info.path \in DOMAIN applied[1].file_actions)
              <=> (Triggered(file_info) # {})

\* A stop_on_match rule kept a lower rule from one file of the batch while
\* that lower rule contributed for another file of the same batch.
C9_Witness ==
  /\ applied # <<>>
  /\ \E f1, f2 \in 1..Len(applied[1].file_list) :
       \E r \in 1..Len(rules) :
         /\ r \in Matching(applied[1].file_list[f1])
         /\ r \notin Triggered(applied[1].file_list[f1])
         /\ r \in Triggered(applied[1].file_list[f2])
         /\ Len(Listed(applied[1].file_list[f1])) > 0
         /\ Len(Listed(applied[1].file_list[f2])) > 0

\* C10: after apply_rules, for each file, the entries are those of the
\* contributing rules laid out by priority descending, rules of equal priority
\* in rule-list order, each rule's actions in their listed order.
C10_StablePriorityOrder ==
  applied # <<>> =>
    \A f \in 1..Len(applied[1].file_list) :
      LET file_info == applied[1].file_list[f]
      IN \A r \in Triggered(file_info) :
           LET offset == ActionCount({q \in Triggered(file_info) : Before(q, r)})
           IN \A a \in 1..Len(rules[r].actions) :
                /\ offset + a <= Len(Listed(file_info))
                /\ Listed(file_info)[offset + a] = triggered_entries(rules[r])[a]

\* Two rules of equal priority, one of them with two actions, and a rule of
\* lower priority all contributed for the same file.
C10_Witness ==
  /\ applied # <<>>
  /\ \E f \in 1..Len(applied[1].file_list) :
       \E r1, r2, r3 \in Triggered(applied[1].file_list[f]) :
         /\ r1 < r2
         /\ rules[r1].priority = rules[r2].priority
         /\ rules[r1].id # rules[r2].id
         /\ rules[r3].priority < rules[r1].priority
         /\ Len(rules[r2].actions) >= 2

KnownKinds ==
  {"filename_contains", "filename_matches", "extension_is", "size_mb",
   "age_days", "folder_contains", "regex_match"}

\* C12: evaluate_conditions returns true exactly when every condition of a
\* known kind holds; a condition of unknown type never makes it false, the
\* empty list gives true, and an age_days condition on a file without
\* modified_time gives false.
C12_Conjunction ==
  (evaluation # <<>> /\ evaluation[1].returned # <<>>) =>
    LET file_info == evaluation[1].file_info
        conditions == evaluation[1].conditions
        result == evaluation[1].returned[1]
    IN /\ result <=>
            \A i \in 1..Len(conditions) :
              conditions[i].type \in KnownKinds =>
                condition_holds(file_info, conditions[i])
       /\ (\A i \in 1..Len(conditions) : conditions[i].type \notin KnownKinds) => result
       /\ (\E i \in 1..Len(conditions) :
             conditions[i].type = "age_days" /\ ~file_info.has_modified_time) => ~result

\* A call whose first condition, of kind age_days, holds: it returned true
\* with a second condition of unknown type, or false with a second condition
\* that fails.
C12_Witness ==
  /\ evaluation # <<>>
  /\ evaluation[1].returned # <<>>
  /\ Len(evaluation[1].conditions) = 2
  /\ evaluation[1].conditions[1].type = "age_days"
  /\ condition_holds(evaluation[1].file_info, evaluation[1].conditions[1])
  /\ \/ /\ evaluation[1].conditions[2].type \notin KnownKinds
        /\ evaluation[1].returned[1]
     \/ /\ ~condition_holds(evaluation[1].file_info, evaluation[1].conditions[2])
        /\ ~evaluation[1].returned[1]

\* C13: a call with a single filename_contains condition returns true exactly
\* when the value occurs in the file name, letter case included if the
\* condition sets case_sensitive, letter case ignored if it does not set it.
C13_CaseSensitivity ==
  (/\ evaluation # <<>>
   /\ evaluation[1].returned # <<>>
   /\ Len(evaluation[1].conditions) = 1
   /\ evaluation[1].conditions[1].type = "filename_contains") =>
    LET name == evaluation[1].file_info.name
        condition == evaluation[1].conditions[1]
        case_sensitive ==
          "case_sensitive" \in DOMAIN condition /\ condition.case_sensitive
    IN evaluation[1].returned[1] <=>
         IF case_sensitive THEN str_in(condition.value, name)
         ELSE str_in(str_lower(condition.value), str_lower(name))

(***************************************************************************)
(* Properties of the learning store.                                       *)
(***************************************************************************)
\* The record_action calls made for a kind, accepted or rejected.
CallsFor(kind, accepted) ==
  Cardinality({i \in 1..Len(calls) : calls[i].type = kind /\ calls[i].accepted = accepted})

\* The float c is num / den up to the rounding of float arithmetic:
\* |c - num / den| <= 2^-40.
NearRatio(c, num, den) ==
  LET sh == IF c.e < 0 THEN 0 - c.e ELSE 0
      left == BShl(BMul(c.m, BFromInt(den)), c.e + sh + 40)
      right == BShl(BFromInt(num), sh + 40)
      slack == BShl(BFromInt(den), sh)
  IN ~BLess(BAdd(right, slack), left) /\ ~BLess(BAdd(left, slack), right)

\* C14: get_action_confidence(kind) is 100 * accepted / (accepted + rejected)
\* over the record_action calls for that kind (as a float: up to rounding, and
\* exactly 80 for 8 accepted and 2 rejected), never above 100, and the neutral
\* 50 when no call for the kind was made.
C14_Confidence ==
  \A kind \in Kinds :
    LET accepted == CallsFor(kind, TRUE)
        rejected == CallsFor(kind, FALSE)
        confidence == get_action_confidence(kind)
    IN /\ accepted + rejected = 0 => confidence = FromInt(50)
       /\ accepted + rejected > 0 =>
            NearRatio(confidence, 100 * accepted, accepted + rejected)
       /\ ~FLess(FromInt(100), confidence)
       /\ (accepted = 8 /\ rejected = 2) => confidence = FromInt(80)

\* 8 accepted and 2 rejected cleanup calls next to calls of another kind and
\* a kind without calls.
C14_Witness ==
  /\ CallsFor(Cleanup, TRUE) = 8
  /\ CallsFor(Cleanup, FALSE) = 2
  /\ CallsFor(Organize, TRUE) + CallsFor(Organize, FALSE) > 0
  /\ CallsFor(Archive, TRUE) + CallsFor(Archive, FALSE) = 0
  /\ get_action_confidence(Cleanup) = FromInt(80)

\* C15: the action log holds at most 1000 records, and they are the records
\* written last, in the order they were written.
C15_LogCap ==
  LET user_actions == memory.user_actions
  IN /\ Len(user_actions) <= 1000
     /\ Len(user_actions) = (IF Len(calls) < 1000 THEN Len(calls) ELSE 1000)
     /\ user_actions = SubSeq(calls, Len(calls) - Len(user_actions) + 1, Len(calls))

\* More than 1000 records were written and the oldest is gone.
C15_Witness ==
  /\ Len(calls) > 1000
  /\ Len(memory.user_actions) = 1000
  /\ memory.user_actions[1] = calls[Len(calls) - 999]
  /\ memory.user_actions[1] # calls[1]

\* C16: a record_action call of kind cleanup, organize or archive with
\* details.files_count = n raises files_cleaned, files_organized or
\* files_archived by n and leaves the other two alone; details.space_freed = s
\* raises space_freed_mb by s.
C16_CumulativeStats ==
  [][Len(calls') = Len(calls) + 1 =>
       LET written == calls'[Len(calls')]
           n == IF "files_count" \in DOMAIN written.details
                THEN written.details.files_count ELSE 0
           freed == IF "space_freed" \in DOMAIN written.details
                    THEN written.details.space_freed ELSE 0
           raised(kind) == IF written.type = kind THEN n ELSE 0
       IN /\ memory'.stats[FilesCleaned] = memory.stats[FilesCleaned] + raised(Cleanup)
          /\ memory'.stats[FilesOrganized] = memory.stats[FilesOrganized] + raised(Organize)
          /\ memory'.stats[FilesArchived] = memory.stats[FilesArchived] + raised(Archive)
          /\ memory'.stats[SpaceFreedMb] = memory.stats[SpaceFreedMb] + freed
  ]_vars

IsAccepted(action) == action.accepted

\* C17: predict_next_action returns a kind most frequent among the last 20
\* accepted actions of the log with, as confidence, the percentage (its
\* integer part) of that window having the kind, and no prediction with
\* confidence 0 when the window is empty.
C17_Prediction ==
  LET accepted_log == SelectSeq(memory.user_actions, IsAccepted)
      n == Len(accepted_log)
      window == SubSeq(accepted_log, IF n > 20 THEN n - 19 ELSE 1, n)
      prediction == predict_next_action
  IN IF window = <<>>
     THEN prediction.action = NoAction /\ prediction.confidence = 0
     ELSE /\ prediction.action \in Kinds
          /\ \A kind \in Kinds :
               accepted_count(window, prediction.action) >= accepted_count(window, kind)
          /\ prediction.confidence =
               (100 * accepted_count(window, prediction.action)) \div Len(window)

\* The suggestion the claim expects for an input suggestion: the integer part
\* of 0.7 * base + 0.3 * history, history being 100 * accepted / total, or 50
\* without history.
Blended(suggestion) ==
  LET accepted == CallsFor(suggestion.action, TRUE)
      total == accepted + CallsFor(suggestion.action, FALSE)
      base == IF "confidence" \in DOMAIN suggestion THEN suggestion.confidence ELSE 50
  IN [action |-> suggestion.action,
      confidence |-> IF total = 0 THEN (7 * base + 150) \div 10
                     ELSE (7 * base * total + 300 * accepted) \div (10 * total),
      learned |-> TRUE]

\* C18: get_personalized_suggestions returns exactly the input suggestions
\* whose kind has a historical confidence of at least 30, each with the
\* integer part of 0.7 * base + 0.3 * history as confidence, in descending
\* order of that confidence.
C18_Personalized ==
  \A l \in 1..Len(SuggestionLists) :
    LET base_suggestions == SuggestionLists[l]
        out == get_personalized_suggestions(base_suggestions)
        kept == {i \in 1..Len(base_suggestions) :
                   LET accepted == CallsFor(base_suggestions[i].action, TRUE)
                       total == accepted + CallsFor(base_suggestions[i].action, FALSE)
                   IN total = 0 \/ 100 * accepted >= 30 * total}
    IN /\ Len(out) = Cardinality(kept)
       /\ \A i \in kept :
            Cardinality({k \in 1..Len(out) : out[k] = Blended(base_suggestions[i])})
              = Cardinality({j \in kept :
                               Blended(base_suggestions[j]) = Blended(base_suggestions[i])})
       /\ \A i, j \in 1..Len(out) : i < j => out[i].confidence >= out[j].confidence

\* The analysis that has returned, if any.
Analysed == {a \in {analysis[k] : k \in 1..Len(analysis)} : a.returned # <<>>}

\* The position of category 'temporary' in the order of file_categories.
TemporaryAt == CHOOSE c \in 1..Len(file_categories) : file_categories[c].name = "temporary"

TemporaryExtensions ==
  {<<".", "t", "m", "p">>, <<".", "b", "a", "k">>, <<".", "o", "l", "d">>,
   <<".", "c", "a", "c", "h", "e">>}

\* C19: every analysed file whose lowercased extension is .tmp, .bak, .old or
\* .cache is put in category 'temporary', its score for that category is at
\* least 50, and every category evaluated earlier scores strictly less.
C19_TemporaryWins ==
  \A a \in Analysed :
    \A i \in 1..Len(a.file_info) :
      LET file == a.file_info[i]
          score == category_score(file, file_categories[TemporaryAt])
      IN str_lower(file.extension) \in TemporaryExtensions
           => /\ a.returned[1].categories[i] = "temporary"
              /\ score >= 50
              /\ \A c \in 1..(TemporaryAt - 1) :
                   category_score(file, file_categories[c]) < score

\* A file with a temporary extension in upper case whose name carries the
\* keyword of an earlier category has been classified.
C19_Witness ==
  \E a \in Analysed :
    \E i \in 1..Len(a.file_info) :
      /\ a.file_info[i].extension = <<".", "T", "M", "P">>
      /\ \E c \in 1..(TemporaryAt - 1) :
           category_score(a.file_info[i], file_categories[c]) = 20
      /\ a.returned[1].categories[i] = "temporary"

\* C20: the suggestions returned by analyze_files are the first five (or all,
\* if fewer) of the candidates: at most five, in non-increasing order of
\* confidence with equal confidences in generation order, no omitted
\* candidate has a higher confidence than a surfaced one, and when some file
\* is classified temporary the first suggestion is the cleanup at 95.
C20_TopFive ==
  \A a \in Analysed :
    LET categories == a.returned[1].categories
        suggestions == a.returned[1].suggestions
        candidates == candidate_actions(a.file_info, categories)
        surfaced == {suggestions[i] : i \in 1..Len(suggestions)}
    IN /\ Len(suggestions) <= 5
       /\ Len(suggestions) = IF Len(candidates) < 5 THEN Len(candidates) ELSE 5
       /\ \A i \in 1..Len(suggestions) :
            \E k \in 1..Len(candidates) : candidates[k] = suggestions[i]
       /\ \A i, j \in 1..Len(suggestions) :
            i < j => \/ suggestions[i].confidence > suggestions[j].confidence
                     \/ /\ suggestions[i].confidence = suggestions[j].confidence
                        /\ suggestions[i].rank < suggestions[j].rank
       /\ \A k \in 1..Len(candidates) :
            candidates[k] \notin surfaced
              => \A i \in 1..Len(suggestions) :
                   candidates[k].confidence <= suggestions[i].confidence
       /\ (\E i \in 1..Len(categories) : categories[i] = "temporary")
            => /\ suggestions # <<>>
               /\ suggestions[1].action = Cleanup
               /\ suggestions[1].confidence = 95

\* All six candidates were generated, two of them at the same confidence, and
\* one was left out of the five suggestions.
C20_Witness ==
  \E a \in Analysed :
    /\ Len(candidate_actions(a.file_info, a.returned[1].categories)) = 6
    /\ Len(a.returned[1].suggestions) = 5
    /\ a.returned[1].suggestions[3].confidence = a.returned[1].suggestions[4].confidence
    /\ a.returned[1].suggestions[1].action = Cleanup

\* C21: the normalisation of a name for duplicate detection (digit runs and
\* the tokens '_copy', '_(n)' and ' - copy' removed) is idempotent: applied
\* to the normalised name of any scanned file it returns that name.
C21_NormalizeIdempotent ==
  \A k \in 1..Len(pattern_scan) :
    \A i \in 1..Len(pattern_scan[k].file_info) :
      LET base_name == base_name_of(str_lower(pattern_scan[k].file_info[i].name))
      IN base_name_of(base_name) = base_name

\* The digit-placeholder pattern of each file of a list.
PatternsOf(file_info) ==
  [i \in 1..Len(file_info) |-> base_pattern_of(file_info[i].name)]

\* C22: a group of files sharing a digit-placeholder pattern is reported as a
\* series exactly when it has more than 3 files, by detect_file_series and
\* by _detect_patterns alike.
C22_SeriesThreshold ==
  /\ \A d \in Range(detected) :
       \A i \in 1..Len(d.file_info) :
         (\E k \in 1..Len(d.returned[1]) :
            d.returned[1][k].pattern = PatternsOf(d.file_info)[i])
           <=> Len(members(PatternsOf(d.file_info), i)) > 3
  /\ \A p \in Range(pattern_scan) :
       \A i \in 1..Len(p.file_info) :
         (\E k \in 1..Len(p.returned[1].series) :
            p.returned[1].series[k] = members(PatternsOf(p.file_info), i))
           <=> Len(members(PatternsOf(p.file_info), i)) > 3

\* C23: for every series detect_file_series reports, count is the number of
\* files of the group, is_sequential holds exactly when the numbers of the
\* files are distinct and fill the interval from the least to the greatest
\* (sorted, they increase by one at every step), and range is "min-max" of
\* those numbers.
C23_SeriesFields ==
  \A d \in Range(detected) :
    \A k \in 1..Len(d.returned[1]) :
      LET entry == d.returned[1][k]
          group == {i \in 1..Len(d.file_info) : PatternsOf(d.file_info)[i] = entry.pattern}
          numbered_files == {i \in group : first_number(d.file_info[i].name) # <<>>}
          numbers == {first_number(d.file_info[i].name)[1] : i \in numbered_files}
      IN /\ entry.count = Cardinality(group)
         /\ entry.is_sequential
              <=> /\ Cardinality(numbers) = Cardinality(numbered_files)
                  /\ numbers # {} => Max(numbers) - Min(numbers) = Cardinality(numbers) - 1
         /\ numbers # {}
              => entry.range = str_of(Min(numbers)) \o <<"-">> \o str_of(Max(numbers))

\* photo_1, photo_2, photo_3 and photo_5 were reported as one series of
\* count 4 that is not sequential, with range "1-5".
C23_Witness ==
  \E d \in Range(detected) :
    /\ Len(d.file_info) = 4
    /\ d.file_info[4].name = Stem \o <<"5">> \o Suffix
    /\ Len(d.returned[1]) = 1
    /\ d.returned[1][1].count = 4
    /\ ~d.returned[1][1].is_sequential
    /\ d.returned[1][1].range = <<"1", "-", "5">>

\* The file was handled by the operation: removed, archived or put in its
\* category folder (or, in a dry run, at least looked at), or it did not
\* qualify for the cleanup.
Processed(t, f) ==
  CASE t.op = "cleanup" ->
         LET is_old == \E age_days \in CleanupAges : TaskFiles[f].age_days > age_days
             is_temp == \E e \in 1..Len(temp_extensions) :
                          ends_with(t.before[f].name, temp_extensions[e])
         IN (is_old \/ is_temp)
              => /\ \E k \in 1..Len(t.results.files_to_remove) :
                      t.results.files_to_remove[k].path = f
                 /\ t.dry_run \/ located[f].dir = Gone
    [] t.op = "archive" -> t.dry_run \/ located[f].dir = ArchiveFolder
    [] t.op = "organize" ->
         t.dry_run \/ located[f].dir = category_folder(t.before[f].name)

\* The failure on the file is in the errors list of the result.
Errored(t, f) ==
  \E k \in 1..Len(t.results.errors) : t.results.errors[k].file = f

\* C24: a bulk operation does not stop at the first error: every file of the
\* batch is either processed or has its failure in the errors list of the
\* result, in cleanup_temp_files, archive_files and organize_by_type.
C24_NoAbortOnError ==
  \A t \in Range(task) :
    \A k \in 1..Len(t.files) : Processed(t, t.files[k]) \/ Errored(t, t.files[k])

\* C25: cancellation is cooperative: once stop_monitoring has been called, a
\* loop that is inside a task finishes it, and the loop begins no further
\* poll (no call of check_due_tasks) and starts no further task.
C25_CooperativeStop ==
  [][\A l \in 1..Len(loops) :
       loops[l].stop_requested
         => /\ ~(loops[l].pc = "check" /\ loops'[l].pc = "for")
            /\ ~(loops[l].pc = "for" /\ loops'[l].pc = "run")
            /\ loops[l].pc = "run" => loops'[l].pc \in {"run", "for"}]_vars

\* C27: at most one monitor loop is alive, whatever the order of the calls
\* of start_monitoring and stop_monitoring and the steps of the loops.
C27_SingleLoop ==
  Cardinality({l \in 1..Len(loops) : Alive(l)}) <= 1

\* C26: a background thread never writes a report widget: what the widgets
\* show was written by the thread of the event loop, the results of the
\* background threads reaching it as posted callbacks.
C26_UiThreadOnly ==
  /\ widgets.analysis_text.thread = "ui"
  /\ widgets.automation_text.thread = "ui"

\* The checkpoints of the history whose backups cleanup_old_backups removed
\* and that are not undone.
Reclaimed ==
  {i \in 1..Len(history) : history[i].backup_removed /\ ~history[i].undone}

RECURSIVE total_of(_, _)
total_of(counters, keys) ==
  IF keys = {} THEN 0
  ELSE LET key == CHOOSE x \in keys : TRUE
       IN counters[key] + total_of(counters, keys \ {key})

\* The accepted counts plus the rejected counts of a memory.
CountedActions(m) ==
  total_of(m.preferences.favorite_actions, DOMAIN m.preferences.favorite_actions)
    + total_of(m.preferences.avoided_actions, DOMAIN m.preferences.avoided_actions)

\* The count of one kind in a dict of counters, 0 when it has none.
CountAt(counters, kind) == IF kind \in DOMAIN counters THEN counters[kind] ELSE 0

\* The counters of a memory: accepted (TRUE) or rejected (FALSE), by kind.
Counter(m, accepted, kind) ==
  CountAt(IF accepted THEN m.preferences.favorite_actions
          ELSE m.preferences.avoided_actions, kind)

\* C29: in every memory the accepted counts plus the rejected counts equal
\* stats.total_actions, which is the number of record_action calls made since
\* the memory was fresh; a call raises exactly one counter, the one of its
\* kind and answer, by one, lowers none, and raises total_actions by one,
\* also when the log is at its cap and the call evicts the oldest record.
C29_CountersConsistent ==
  [][/\ CountedActions(memory) = memory.stats[TotalActions]
     /\ CountedActions(memory') = memory'.stats[TotalActions]
     /\ memory.stats[TotalActions] = Len(calls)
     /\ memory'.stats[TotalActions] = Len(calls')
     /\ DOMAIN memory'.preferences.favorite_actions \subseteq Kinds
     /\ DOMAIN memory'.preferences.avoided_actions \subseteq Kinds
     /\ calls' # calls =>
          LET made == calls'[Len(calls')]
          IN /\ memory'.stats[TotalActions] = memory.stats[TotalActions] + 1
             /\ \A accepted \in BOOLEAN, kind \in Kinds :
                  Counter(memory', accepted, kind) =
                    Counter(memory, accepted, kind)
                      + (IF accepted = made.accepted /\ kind = made.type THEN 1 ELSE 0)
             /\ Len(memory.user_actions) = LogCap
                  => Len(memory'.user_actions) = LogCap
    ]_vars

\* The log is at its cap after a call that evicted a record, and the
\* counters have passed the number of records it holds.
C29_Witness ==
  /\ Len(memory.user_actions) = LogCap
  /\ memory.stats[TotalActions] > LogCap
  /\ CountedActions(memory) > Len(memory.user_actions)
  /\ memory.user_actions[1].timestamp > 1

\* C30: a start that finds no rule file, an unreadable one or a stored empty
\* list leaves the two default rules in the engine and in the file; after
\* any start the engine has rules and the file holds them.
C30_DefaultsReappear ==
  [][\A found \in Found :
       load_rules(found) =>
         /\ rules' # <<>>
         /\ rules_file' = rules'
         /\ (found # "stored" \/ rules_file = <<>>)
              => /\ rules' = DefaultRules
                 /\ Len(rules') = 2
                 /\ rules_file' = DefaultRules
         /\ (found = "stored" /\ rules_file # <<>>)
              => rules' = rules_file /\ rules_file' = rules_file
    ]_vars

\* The program started on a file whose list delete_rule had emptied, and the
\* default rules are back in the engine and in the file.
C30_Witness ==
  /\ loaded.found = "stored"
  /\ loaded.stored = 0
  /\ rules = DefaultRules
  /\ rules_file = DefaultRules

====
